---- MODULE Spec2Model ----
(***************************************************************************)
(* GreenLens ESG dashboard (src/app.py): a Streamlit script that is        *)
(* re-executed top to bottom, once per session and interaction.  The       *)
(* model keeps the process-wide st.cache_data store of load_data, the      *)
(* per-session widget state, and the script variables of the run in        *)
(* progress (df, filtered_df and its derived columns, the rendered         *)
(* elements).                                                              *)
(***************************************************************************)
EXTENDS Integers, Sequences, FiniteSets, TLC

(***************************************************************************)
(* Bounds of the model.                                                    *)
(***************************************************************************)
MaxRows == 2        \* rows of the CSV in the dashboard specification
MaxRuns == 3        \* script runs, all sessions together
MaxFilterRows == 2  \* rows of the table in the filter specification
MaxFirstRunRows == 4  \* rows of the table in the first-run specification
MaxPairRows == 3    \* rows of the table in the two-selection specification

Sessions == {1, 2}

(***************************************************************************)
(* Numbers.  A pandas float64 cell is <<n, d>>: the rational n/d in lowest *)
(* terms when d > 0; <<1,0>> is inf, <<-1,0>> is -inf, <<0,0>> is NaN.     *)
(* Division never raises: x/0 is +-inf and 0/0 is NaN, as numpy does.      *)
(***************************************************************************)
NaN == <<0, 0>>
Inf == <<1, 0>>

Abs(n) == IF n < 0 THEN -n ELSE n
Sgn(n) == IF n < 0 THEN -1 ELSE IF n = 0 THEN 0 ELSE 1

RECURSIVE GCD(_, _)
GCD(a, b) == IF b = 0 THEN a ELSE GCD(b, a % b)

Norm(n, d) ==
    IF d = 0 THEN <<Sgn(n), 0>>
    ELSE LET g == GCD(Abs(n), Abs(d))
         IN  <<Sgn(d) * (n \div g), Abs(d) \div g>>

R(n, d) == Norm(n, d)
Num(n) == <<n, 1>>
IsNaN(x) == x = NaN
IsFinite(x) == x[2] # 0

Neg(a) == <<-a[1], a[2]>>
Mul(a, b) == Norm(a[1] * b[1], a[2] * b[2])
Recip(a) == IF a[2] = 0 THEN (IF a[1] = 0 THEN NaN ELSE Num(0))
            ELSE IF a[1] = 0 THEN Inf
            ELSE <<Sgn(a[1]) * a[2], Abs(a[1])>>
Div(a, b) == Mul(a, Recip(b))
Add(a, b) ==
    IF IsNaN(a) \/ IsNaN(b) THEN NaN
    ELSE IF a[2] = 0 /\ b[2] = 0 THEN (IF a[1] = b[1] THEN a ELSE NaN)
    ELSE IF a[2] = 0 THEN a
    ELSE IF b[2] = 0 THEN b
    ELSE Norm(a[1] * b[2] + b[1] * a[2], a[2] * b[2])
Sub(a, b) == Add(a, Neg(b))
Less(a, b) == a[1] * b[2] < b[1] * a[2]

(***************************************************************************)
(* Series helpers, as pandas computes them.                                *)
(***************************************************************************)
Range(q) == {q[i] : i \in DOMAIN q}

\* Faulty variant: repeated values are kept.
UniqueKeepingRepeats(q) == q

\* Series.unique(): the distinct values in order of first appearance.
RECURSIVE Unique(_)
Unique(q) ==
    IF q = <<>> THEN <<>>
    ELSE LET front == Unique(SubSeq(q, 1, Len(q) - 1))
             last  == q[Len(q)]
         IN  IF last \in Range(front) THEN front ELSE Append(front, last)

\* q[:n]
Take(q, n) == SubSeq(q, 1, IF n < Len(q) THEN n ELSE Len(q))

\* sorted(values, reverse=True) for a sequence of distinct integers.
RECURSIVE SortedDesc(_)
SortedDesc(q) ==
    IF q = <<>> THEN <<>>
    ELSE LET m == CHOOSE i \in DOMAIN q : \A j \in DOMAIN q : q[j] <= q[i]
         IN  <<q[m]>> \o SortedDesc(SubSeq(q, 1, m - 1) \o SubSeq(q, m + 1, Len(q)))

\* The positions of q, in order, at which the mask holds.
RECURSIVE Positions(_, _)
Positions(n, mask) ==
    IF n = 0 THEN <<>>
    ELSE IF mask[n] THEN Append(Positions(n - 1, mask), n)
         ELSE Positions(n - 1, mask)

RECURSIVE SumSeq(_)
SumSeq(q) == IF q = <<>> THEN Num(0) ELSE Add(SumSeq(Tail(q)), Head(q))

NotNaN(x) == ~IsNaN(x)

\* Series.max() and Series.mean(), skipna=True: NaN cells are left out, and
\* an all-NaN (or empty) series gives NaN.  inf is a value like any other.
SeriesMax(q) ==
    LET v == SelectSeq(q, NotNaN)
    IN  IF v = <<>> THEN NaN
        ELSE v[CHOOSE i \in DOMAIN v : \A j \in DOMAIN v : ~Less(v[i], v[j])]

SeriesMean(q) ==
    LET v == SelectSeq(q, NotNaN)
    IN  IF v = <<>> THEN NaN ELSE Div(SumSeq(v), Num(Len(v)))

(***************************************************************************)
(* The CSV.  A row holds the columns the modelled computations read.       *)
(***************************************************************************)
Dim(c, r, d, y, q) ==
    [company_name |-> c, region |-> r, department |-> d, year |-> y, quarter |-> q]

Env(energy, prod, s1, s2, s3, rev, renew, recycled) ==
    [energy_consumption_mwh |-> Num(energy), production_output_units |-> Num(prod),
     scope1_emissions_tco2e |-> Num(s1), scope2_emissions_tco2e |-> Num(s2),
     scope3_emissions_tco2e |-> Num(s3), revenue_usd_m |-> Num(rev),
     waste_generated_tonnes |-> Num(4), water_withdrawal_m3 |-> Num(100),
     renewable_energy_share_pct |-> renew, waste_recycled_pct |-> recycled]

Soc(female, minority, engagement, turnover, equity, training, board) ==
    [female_pct |-> female, minority_pct |-> minority,
     employee_engagement_score |-> Num(engagement), employee_turnover_pct |-> turnover,
     pay_equity_ratio_female_to_male |-> equity,
     avg_training_hours_per_employee |-> Num(training),
     board_gender_diversity_pct |-> board]

Gov(independent, training, policy, supplier, controversy, esg) ==
    [independent_directors_pct |-> independent, anti_corruption_training_pct |-> training,
     esg_policy_coverage_pct |-> policy, supplier_code_of_conduct_coverage_pct |-> supplier,
     controversy_level_0_low_3_high |-> Num(controversy), esg_score |-> Num(esg)]

Risk(breaches, reports, fines) ==
    [data_breaches_count |-> Num(breaches), whistleblower_reports |-> Num(reports),
     fines_penalties_usd_m |-> Num(fines)]

\* The rows a CSV of the model is made of.
Pool ==
    << Dim("Acme", "EU", "Ops", 2023, 1)
         @@ Env(50, 10, 10, 20, 30, 6, R(1, 2), R(1, 2))
         @@ Soc(R(2, 5), R(1, 5), 80, R(1, 10), R(9, 10), 20, R(3, 10))
         @@ Gov(R(1, 2), R(4, 5), R(9, 10), R(7, 10), 1, 70) @@ Risk(2, 5, 1),
       Dim("Acme", "US", "HR", 2022, 2)
         @@ Env(30, 0, 10, 10, 20, 2, R(1, 4), R(3, 4))
         @@ Soc(R(1, 2), R(1, 4), 60, R(1, 5), Num(1), 10, R(1, 2))
         @@ Gov(R(3, 4), R(1, 2), R(1, 2), R(1, 2), 0, 60) @@ Risk(0, 5, 3),
       Dim("Acme", "EU", "HR", 2023, 2)
         @@ Env(0, 0, 0, 0, 0, 5, R(1, 2), R(1, 4))
         @@ Soc(R(3, 5), R(1, 10), 50, R(3, 10), R(4, 5), 0, R(1, 5))
         @@ Gov(R(1, 4), R(1, 4), R(3, 4), Num(1), 3, 40) @@ Risk(1, 0, 0),
       Dim("Bolt Co", "EU", "Ops", 2023, 1)
         @@ Env(20, 5, 5, 5, 5, 3, R(3, 4), R(1, 2))
         @@ Soc(R(1, 4), R(1, 2), 90, R(1, 20), R(19, 20), 40, R(2, 5))
         @@ Gov(R(3, 5), R(9, 10), Num(1), R(4, 5), 2, 85) @@ Risk(3, 2, 2) >>

\* Every sequence of at most n rows of the pool.
RECURSIVE SeqsUpTo(_)
SeqsUpTo(n) ==
    IF n = 0 THEN {<<>>}
    ELSE LET shorter == SeqsUpTo(n - 1)
         IN  shorter \cup {Append(t, Pool[i]) : t \in shorter, i \in DOMAIN Pool}

PoolIndex(r) == CHOOSE i \in DOMAIN Pool : Pool[i] = r
StrictlyBefore(a, b) == PoolIndex(a) < PoolIndex(b)

\* Values a selection may name; the last of each is in no row of the pool.
Companies   == {"Acme", "Bolt Co", "Nowhere Inc"}
Years       == {2022, 2023, 1999}
Regions     == {"EU", "US", "Mars"}
Departments == {"Ops", "HR", "Void"}

(***************************************************************************)
(* Data frames: idx are the index labels (row numbers of the CSV), rows    *)
(* the CSV columns, cols the columns assigned after loading.               *)
(***************************************************************************)
NoFrame == [none |-> TRUE]
NoCols == <<>>

\* pd.read_csv: a RangeIndex and the file's columns.
AsFrame(rows) == [idx |-> [i \in DOMAIN rows |-> i], rows |-> rows, cols |-> NoCols]

Column(f, name) ==
    IF name \in DOMAIN f.cols THEN f.cols[name]
    ELSE [i \in DOMAIN f.rows |-> f.rows[i][name]]

\* frame[name] = vals
WithColumn(f, name, vals) ==
    [f EXCEPT !.cols = [c \in DOMAIN f.cols \cup {name} |->
                            IF c = name THEN vals ELSE f.cols[c]]]

\* Faulty variant: rows equal to an earlier kept row are dropped.
BoolIndexDistinct(f, mask) ==
    LET all  == Positions(Len(f.rows), mask)
        First(p) == \A q \in Range(all) : q < p => f.rows[q] # f.rows[p]
        keep == SelectSeq(all, First)
    IN  [idx  |-> [k \in DOMAIN keep |-> f.idx[keep[k]]],
         rows |-> [k \in DOMAIN keep |-> f.rows[keep[k]]],
         cols |-> [c \in DOMAIN f.cols |-> [k \in DOMAIN keep |-> f.cols[c][keep[k]]]]]

\* frame[mask]: a new frame holding the rows at which the mask holds, in the
\* frame's order, each with its index label.
BoolIndex(f, mask) ==
    LET keep == Positions(Len(f.rows), mask)
    IN  [idx  |-> [k \in DOMAIN keep |-> f.idx[keep[k]]],
         rows |-> [k \in DOMAIN keep |-> f.rows[keep[k]]],
         cols |-> [c \in DOMAIN f.cols |-> [k \in DOMAIN keep |-> f.cols[c][keep[k]]]]]

IsEmpty(f) == Len(f.rows) = 0

(***************************************************************************)
(* State.                                                                  *)
(***************************************************************************)
VARIABLES
    file,      \* greenlens_esg_dataset.csv: [kind, rows]
    cache,     \* st.cache_data entry of load_data(): NoFrame until stored
    lock,      \* holder of the entry's compute lock, 0 when free
    reads,     \* how many times pd.read_csv has read the file's content
    pc,        \* per session: where its script run stands
    runs,      \* per session: script runs started
    widgets,   \* per session: the sidebar widgets' values, kept between runs
    ns,        \* per session: the script's variables in the current run
    shown      \* per session: the elements the current run has rendered

vars == <<file, cache, lock, reads, pc, runs, widgets, ns, shown>>

NoWidgets == [none |-> TRUE]
NoCompany == "None"

\* The script's variables before any statement has run.
Unbound ==
    [df |-> NoFrame, selected |-> NoWidgets, filtered_df |-> NoFrame, metrics |-> <<>>,
     trace |-> <<>>]

\* Faulty variant: the variables of the session's previous run are still bound.
KeptNamespace(s) == ns[s]

\* Every run executes the script in a new namespace.
NewNamespace(s) == Unbound

\* The CSVs of the dashboard specification: at most MaxRows rows of the pool,
\* in the pool's order.
Tables ==
    {t \in SeqsUpTo(MaxRows) :
        \A i, j \in DOMAIN t : i < j => StrictlyBefore(t[i], t[j])}

Files ==
    {[kind |-> "missing", rows |-> <<>>], [kind |-> "malformed", rows |-> <<>>]}
    \cup {[kind |-> "ok", rows |-> t] : t \in Tables}

Init ==
    /\ file \in Files
    /\ cache = NoFrame
    /\ lock = 0
    /\ reads = 0
    /\ pc = [s \in Sessions |-> "idle"]
    /\ runs = [s \in Sessions |-> 0]
    /\ widgets = [s \in Sessions |-> NoWidgets]
    /\ ns = [s \in Sessions |-> Unbound]
    /\ shown = [s \in Sessions |-> {}]

(***************************************************************************)
(* Script runs.  Streamlit runs the whole script for a session when it     *)
(* connects, when one of its widgets changes and when it asks for a rerun. *)
(***************************************************************************)
RECURSIVE Total(_, _)
Total(count, S) ==
    IF S = {} THEN 0
    ELSE LET x == CHOOSE x \in S : TRUE IN count[x] + Total(count, S \ {x})

BeginRun(s) ==
    /\ Total(runs, Sessions) < MaxRuns
    /\ runs' = [runs EXCEPT ![s] = @ + 1]
    /\ ns' = [ns EXCEPT ![s] = NewNamespace(s)]
    /\ shown' = [shown EXCEPT ![s] = {}]
    /\ pc' = [pc EXCEPT ![s] = "call"]

Connect(s) ==
    /\ pc[s] = "idle"
    /\ BeginRun(s)
    /\ UNCHANGED <<file, cache, lock, reads, widgets>>

Rerun(s) ==
    /\ pc[s] \in {"done", "crashed"}
    /\ BeginRun(s)
    /\ UNCHANGED <<file, cache, lock, reads, widgets>>

(***************************************************************************)
(* load_data() behind @st.cache_data: a hit returns a copy of the stored   *)
(* value; a miss takes the entry's compute lock, looks again, and only     *)
(* then runs the body and stores what it returned.  An exception in the    *)
(* body stores nothing and ends the run.                                   *)
(***************************************************************************)
\* What a call hands to the caller from the cache: a copy of the stored frame.
CachedValue == cache

Bind(s, frame) == [ns EXCEPT ![s].df = frame]

\* st.set_page_config, inject_custom_css(), then df = load_data(): the lookup
\* before any lock is taken.
Call(s) ==
    /\ pc[s] = "call"
    /\ IF cache # NoFrame
       THEN /\ ns' = Bind(s, CachedValue)
            /\ pc' = [pc EXCEPT ![s] = "ui"]
       ELSE /\ pc' = [pc EXCEPT ![s] = "wait"]
            /\ UNCHANGED ns
    /\ shown' = [shown EXCEPT ![s] = @ \cup {"css"}]
    /\ UNCHANGED <<file, cache, lock, reads, runs, widgets>>

\* Faulty variant: no compute lock: a miss goes straight to the body.
LockIgnored(s) == TRUE

\* May session s take the compute lock?
LockFree(s) == lock = 0

\* The miss path finds the lock held: the session's thread blocks on it.
Block(s) ==
    /\ pc[s] = "wait"
    /\ ~LockFree(s)
    /\ pc' = [pc EXCEPT ![s] = "blocked"]
    /\ UNCHANGED <<file, cache, lock, reads, runs, widgets, ns, shown>>

\* The miss path: take the compute lock and look again.
Acquire(s) ==
    /\ pc[s] \in {"wait", "blocked"}
    /\ LockFree(s)
    /\ IF cache # NoFrame
       THEN /\ ns' = Bind(s, CachedValue)
            /\ pc' = [pc EXCEPT ![s] = "ui"]
            /\ UNCHANGED lock
       ELSE /\ pc' = [pc EXCEPT ![s] = "read"]
            /\ lock' = s
            /\ UNCHANGED ns
    /\ UNCHANGED <<file, cache, reads, runs, widgets, shown>>

\* Faulty variant: the returned frame is not stored.
StoredNothing(frame) == NoFrame

\* What the call stores once the body has returned.
Stored(frame) == frame

\* Faulty variant: errors of read_csv are swallowed and an empty frame is returned.
ReadableAlways(f) == TRUE

\* Does pd.read_csv return a frame for this file?  It raises for a file that
\* is not there and for one it cannot parse; the script catches nothing.
Readable(f) == f.kind = "ok"

\* The body, pd.read_csv('greenlens_esg_dataset.csv'), under the lock.
ReadOk(s) ==
    /\ pc[s] = "read"
    /\ Readable(file)
    /\ reads' = reads + 1
    /\ cache' = Stored(AsFrame(file.rows))
    /\ ns' = Bind(s, AsFrame(file.rows))
    /\ lock' = 0
    /\ pc' = [pc EXCEPT ![s] = "ui"]
    /\ UNCHANGED <<file, runs, widgets, shown>>

\* read_csv raises: FileNotFoundError before anything is read, or a parser
\* error after reading.  Nothing is stored; the run ends with the exception.
ReadFails(s) ==
    /\ pc[s] = "read"
    /\ ~Readable(file)
    /\ reads' = IF file.kind = "malformed" THEN reads + 1 ELSE reads
    /\ lock' = 0
    /\ pc' = [pc EXCEPT ![s] = "crashed"]
    /\ shown' = [shown EXCEPT ![s] = @ \cup {"exception"}]
    /\ UNCHANGED <<file, cache, runs, widgets, ns>>

(***************************************************************************)
(* Title and sidebar.  A widget shows the distinct values of its column    *)
(* and returns its stored value, or its default on the session's first     *)
(* run.                                                                    *)
(***************************************************************************)
companies(f)   == Unique(Column(f, "company_name"))
\* Faulty variant: the years are offered in table order.
years_unsorted(f) == Unique(Column(f, "year"))

years(f)       == SortedDesc(Unique(Column(f, "year")))
regions(f)     == Unique(Column(f, "region"))
departments(f) == Unique(Column(f, "department"))

Defaults(f) ==
    [company     |-> IF companies(f) = <<>> THEN NoCompany ELSE companies(f)[1],
     years       |-> Range(Take(years(f), 2)),
     regions     |-> Range(regions(f)),
     departments |-> Range(Take(departments(f), 3))]

\* The selections the widgets over frame f can hold.
Selectable(f) ==
    [company     : IF companies(f) = <<>> THEN {NoCompany} ELSE Range(companies(f)),
     years       : SUBSET Range(years(f)),
     regions     : SUBSET Range(regions(f)),
     departments : SUBSET Range(departments(f))]

\* Faulty variant: one process-wide selection instead of one per session.
KeepGlobal(w, s, sel) == [t \in Sessions |-> sel]

\* Widget values are kept per session.
Keep(w, s, sel) == [w EXCEPT ![s] = sel]

\* The selection the filter of session s reads.
Selected(s) == IF widgets[s] = NoWidgets THEN Defaults(ns[s].df) ELSE widgets[s]

Sidebar(s) ==
    /\ pc[s] = "ui"
    /\ widgets' = Keep(widgets, s, Selected(s))
    /\ ns' = [ns EXCEPT ![s].selected = Selected(s)]
    /\ shown' = [shown EXCEPT ![s] = @ \cup {"title", "filters"}]
    /\ pc' = [pc EXCEPT ![s] = "filter"]
    /\ UNCHANGED <<file, cache, lock, reads, runs>>

\* The user changes one widget of a finished run; the script runs again.
Interact(s) ==
    /\ pc[s] = "done"
    /\ \E sel \in Selectable(ns[s].df) :
          /\ Cardinality({k \in DOMAIN sel : sel[k] # widgets[s][k]}) = 1
          /\ widgets' = Keep(widgets, s, sel)
    /\ BeginRun(s)
    /\ UNCHANGED <<file, cache, lock, reads>>

(***************************************************************************)
(* The filter and the empty-result guard.                                  *)
(***************************************************************************)
\* Faulty variant: the department predicate is left out.
MatchesWithoutDepartment(row, sel) ==
    /\ row.company_name = sel.company
    /\ row.year \in sel.years
    /\ row.region \in sel.regions

Matches(row, sel) ==
    /\ row.company_name = sel.company
    /\ row.year \in sel.years
    /\ row.region \in sel.regions
    /\ row.department \in sel.departments

Mask(f, sel) == [i \in DOMAIN f.rows |-> Matches(f.rows[i], sel)]

\* Faulty variant: a lookup by label, which raises KeyError for a value no row has.
RaisesOnUnknown(f, sel) ==
    \/ ~(sel.years \subseteq Range(Column(f, "year")))
    \/ ~(sel.regions \subseteq Range(Column(f, "region")))
    \/ ~(sel.departments \subseteq Range(Column(f, "department")))

\* Does the filter expression raise for this selection?  ==, isin and & are
\* total: a value no row has, or an empty list, only yields an all-False mask.
Raises(f, sel) == FALSE

Filter(s) ==
    /\ pc[s] = "filter"
    /\ IF Raises(ns[s].df, ns[s].selected)
       THEN /\ pc' = [pc EXCEPT ![s] = "crashed"]
            /\ shown' = [shown EXCEPT ![s] = @ \cup {"exception"}]
            /\ UNCHANGED ns
       ELSE /\ ns' = [ns EXCEPT ![s].filtered_df =
                                   BoolIndex(ns[s].df, Mask(ns[s].df, ns[s].selected))]
            /\ pc' = [pc EXCEPT ![s] = "guard"]
            /\ UNCHANGED shown
    /\ UNCHANGED <<file, cache, lock, reads, runs, widgets>>

RowSum2(f, a, b) == [i \in DOMAIN f.rows |-> Add(Column(f, a)[i], Column(f, b)[i])]

\* metrics[name] = value
WithMetric(m, name, value) ==
    [k \in DOMAIN m \cup {name} |-> IF k = name THEN value ELSE m[k]]

\* Faulty variant: the guard is missing.
NoDataNever(f) == FALSE

\* Does the run take the "no data" branch?
NoData(f) == IsEmpty(f)

\* metrics[name] = Value(filtered_df), in the namespace n of a run.
Metric(n, name, Value(_)) ==
    [n EXCEPT !.metrics = WithMetric(@, name, Value(n.filtered_df))]

\* The KPI row of the else branch, on the namespace n of a run.
KeyMetrics(n) ==
    LET m1 == Metric(n, "avg_emissions",
                     LAMBDA f : SeriesMean(RowSum2(f, "scope1_emissions_tco2e",
                                                   "scope2_emissions_tco2e")))
        m2 == Metric(m1, "renewable_share",
                     LAMBDA f : SeriesMean(Column(f, "renewable_energy_share_pct")))
    IN  Metric(m2, "total_emissions",
               LAMBDA f : Add(Add(SumSeq(Column(f, "scope1_emissions_tco2e")),
                                  SumSeq(Column(f, "scope2_emissions_tco2e"))),
                              SumSeq(Column(f, "scope3_emissions_tco2e"))))

(***************************************************************************)
(* Environmental tab: the working copy and its derived columns.            *)
(***************************************************************************)
\* frame.copy()
Copy(f) == f

\* The run's record of what it has assigned and evaluated so far, in program
\* order: a "write" for each assignment of a derived column or variable, a
\* "read" for each evaluation of one.
Event(op, name) == [op |-> op, name |-> name]
Wrote(n, name) == [n EXCEPT !.trace = Append(@, Event("write", name))]
Reads(n, names) ==
    [n EXCEPT !.trace = @ \o [k \in DOMAIN names |-> Event("read", names[k])]]

\* Faulty variant: filtered_df shares its data with df, so the column is
\* assigned to df as well, aligned on the index labels.
SetItemOnSource(n, col, vals) ==
    LET At(label) == CHOOSE k \in DOMAIN n.filtered_df.idx : n.filtered_df.idx[k] = label
        aligned == [i \in DOMAIN n.df.rows |->
                       IF n.df.idx[i] \in Range(n.filtered_df.idx)
                       THEN vals[At(n.df.idx[i])] ELSE NaN]
    IN  [Wrote(n, col) EXCEPT !.df = WithColumn(@, col, aligned),
                              !.filtered_df = WithColumn(@, col, vals)]

\* filtered_df[col] = vals, in the namespace n of a run.
SetItem(n, col, vals) == [Wrote(n, col) EXCEPT !.filtered_df = WithColumn(@, col, vals)]

\* filtered_df[col] = Value(filtered_df)
SetFrom(n, col, Value(_)) == SetItem(n, col, Value(n.filtered_df))

Ratio(f, a, b) == [i \in DOMAIN f.rows |-> Div(Column(f, a)[i], Column(f, b)[i])]

\* Faulty variant: a column that is already there is added to, not replaced.
energy_intensity_accumulated(f) ==
    IF "energy_intensity" \in DOMAIN f.cols
    THEN [i \in DOMAIN f.rows |->
             Add(f.cols["energy_intensity"][i],
                 Ratio(f, "energy_consumption_mwh", "production_output_units")[i])]
    ELSE Ratio(f, "energy_consumption_mwh", "production_output_units")

energy_intensity(f) == Ratio(f, "energy_consumption_mwh", "production_output_units")

carbon_intensity(f) ==
    [i \in DOMAIN f.rows |->
        Div(Add(Add(Column(f, "scope1_emissions_tco2e")[i],
                    Column(f, "scope2_emissions_tco2e")[i]),
                Column(f, "scope3_emissions_tco2e")[i]),
            Column(f, "revenue_usd_m")[i])]

waste_intensity(f) == Ratio(f, "waste_generated_tonnes", "production_output_units")

water_intensity(f) == Ratio(f, "water_withdrawal_m3", "production_output_units")

weighted_waste_recycled(f) ==
    [i \in DOMAIN f.rows |->
        Mul(Column(f, "waste_recycled_pct")[i], Column(f, "waste_generated_tonnes")[i])]

\* Faulty variant: the maximum over every row the data can hold, whatever the
\* filtered subset is.
ColumnMaxOfPool(f, col) ==
    IF col = "carbon_intensity" THEN SeriesMax(carbon_intensity(AsFrame(Pool)))
    ELSE SeriesMax(Column(AsFrame(Pool), col))

\* Faulty variant: a zero maximum is replaced by 1 before dividing.
ColumnMaxOrOne(f, col) ==
    IF SeriesMax(Column(f, col)) = Num(0) THEN Num(1) ELSE SeriesMax(Column(f, col))

\* The denominator of a divide-by-max term: the column's maximum over frame f.
ColumnMax(f, col) == SeriesMax(Column(f, col))

norm_carbon_intensity(f) ==
    [i \in DOMAIN f.rows |->
        Sub(Num(1), Div(Column(f, "carbon_intensity")[i], ColumnMax(f, "carbon_intensity")))]

\* Faulty variant: the carbon term and the renewable term weigh 0.35 each.
green_efficiency_score_reweighted(f) ==
    [i \in DOMAIN f.rows |->
        Mul(Add(Add(Mul(Column(f, "norm_carbon_intensity")[i], R(35, 100)),
                    Mul(Column(f, "renewable_energy_share_pct")[i], R(35, 100))),
                Mul(Column(f, "waste_recycled_pct")[i], R(3, 10))),
            Num(100))]

green_efficiency_score(f) ==
    [i \in DOMAIN f.rows |->
        Mul(Add(Add(Mul(Column(f, "norm_carbon_intensity")[i], R(4, 10)),
                    Mul(Column(f, "renewable_energy_share_pct")[i], R(3, 10))),
                Mul(Column(f, "waste_recycled_pct")[i], R(3, 10))),
            Num(100))]

\* Python's order on the strings of the model (code point order).
Collation ==
    <<"APAC", "Acme", "Big Oil Co", "Bolt Co", "EU", "Fin", "HR", "IT", "Mars", "None",
      "Nowhere Inc", "Ops", "US", "Void">>
StrRank(x) == CHOOSE i \in DOMAIN Collation : Collation[i] = x
StrLess(a, b) == StrRank(a) < StrRank(b)
IntLess(a, b) == a < b
\* (year, quarter) tuples compare lexicographically.
PairLess(a, b) == a[1] < b[1] \/ (a[1] = b[1] /\ a[2] < b[2])

\* A stable sort of q by the strict order Lt: equal elements keep their order.
StableSort(q, Lt(_, _)) ==
    LET place(i) == 1 + Cardinality({j \in DOMAIN q :
                                        Lt(q[j], q[i]) \/ (~Lt(q[i], q[j]) /\ j < i)})
    IN  [k \in DOMAIN q |-> q[CHOOSE i \in DOMAIN q : place(i) = k]]

\* groupby(keys)[col].mean().reset_index(): one output row per key present in
\* the frame, the keys in ascending order (sort=True).  keyOf gives each row's key.
GroupMean(f, keyOf, Lt(_, _), col) ==
    LET keys == StableSort(Unique(keyOf), Lt)
        In(k) == Positions(Len(f.rows), [i \in DOMAIN f.rows |-> keyOf[i] = k])
    IN  [g \in DOMAIN keys |->
            [key   |-> keys[g],
             value |-> SeriesMean([p \in DOMAIN In(keys[g]) |->
                                      Column(f, col)[In(keys[g])[p]]])]]

\* The derived columns that the KPIs, aggregates and charts of the tab
\* evaluate, in program order (lines 266-554).
Tab1Reads ==
    <<"energy_intensity", "carbon_intensity", "waste_intensity", "water_intensity",
      "energy_intensity", "carbon_intensity", "waste_intensity", "water_intensity",
      "green_efficiency_score", "carbon_intensity", "green_efficiency_score",
      "carbon_intensity", "green_efficiency_score", "carbon_intensity",
      "energy_intensity", "carbon_intensity", "green_efficiency_score", "carbon_intensity">>

Tab1(n) ==
    LET n0 == [n EXCEPT !.filtered_df = Copy(@)]
        n1 == SetFrom(n0, "energy_intensity", energy_intensity)
        n2 == SetFrom(n1, "carbon_intensity", carbon_intensity)
        n3 == SetFrom(n2, "waste_intensity", waste_intensity)
        n4 == SetFrom(n3, "water_intensity", water_intensity)
        n5 == SetFrom(n4, "weighted_waste_recycled", weighted_waste_recycled)
        n6 == SetFrom(Reads(n5, <<"carbon_intensity">>), "norm_carbon_intensity",
                      norm_carbon_intensity)
        n7 == SetFrom(Reads(n6, <<"norm_carbon_intensity">>), "green_efficiency_score",
                      green_efficiency_score)
        m1 == Metric(n7, "avg_energy_intensity",
                     LAMBDA f : SeriesMean(Column(f, "energy_intensity")))
        m2 == Metric(m1, "avg_carbon_intensity",
                     LAMBDA f : SeriesMean(Column(f, "carbon_intensity")))
        m3 == Metric(m2, "avg_waste_intensity",
                     LAMBDA f : SeriesMean(Column(f, "waste_intensity")))
        m4 == Metric(m3, "avg_water_intensity",
                     LAMBDA f : SeriesMean(Column(f, "water_intensity")))
        m5 == Metric(m4, "energy_intensity_trend",
                     LAMBDA f : GroupMean(f, Column(f, "year"), IntLess, "energy_intensity"))
        m6 == Metric(m5, "green_score_dept",
                     LAMBDA f : GroupMean(f, Column(f, "department"), StrLess,
                                          "green_efficiency_score"))
    IN  Reads(m6, Tab1Reads)

(***************************************************************************)
(* Social tab.                                                             *)
(***************************************************************************)
male_pct(f) == [i \in DOMAIN f.rows |-> Sub(Num(1), Column(f, "female_pct")[i])]

\* Faulty variant: engagement and turnover weigh 0.3 each, the other two 0.2.
social_well_being_index_reweighted(f) ==
    [i \in DOMAIN f.rows |->
        Mul(Add(Add(Add(Mul(Div(Column(f, "employee_engagement_score")[i], Num(100)), R(3, 10)),
                        Mul(Sub(Num(1), Column(f, "employee_turnover_pct")[i]), R(3, 10))),
                    Mul(Column(f, "pay_equity_ratio_female_to_male")[i], R(2, 10))),
                Mul(Div(Column(f, "avg_training_hours_per_employee")[i],
                        ColumnMax(f, "avg_training_hours_per_employee")), R(2, 10))),
            Num(100))]

social_well_being_index(f) ==
    [i \in DOMAIN f.rows |->
        Mul(Add(Add(Add(Mul(Div(Column(f, "employee_engagement_score")[i], Num(100)), R(1, 4)),
                        Mul(Sub(Num(1), Column(f, "employee_turnover_pct")[i]), R(1, 4))),
                    Mul(Column(f, "pay_equity_ratio_female_to_male")[i], R(1, 4))),
                Mul(Div(Column(f, "avg_training_hours_per_employee")[i],
                        ColumnMax(f, "avg_training_hours_per_employee")), R(1, 4))),
            Num(100))]

\* Faulty variant: the sum is divided by the number of rows of the subset.
diversity_inclusion_index_per_row_count(f) ==
    [i \in DOMAIN f.rows |->
        Mul(Div(Add(Add(Column(f, "female_pct")[i], Column(f, "minority_pct")[i]),
                    Column(f, "board_gender_diversity_pct")[i]),
                Num(Len(f.rows))),
            Num(100))]

diversity_inclusion_index(f) ==
    [i \in DOMAIN f.rows |->
        Mul(Div(Add(Add(Column(f, "female_pct")[i], Column(f, "minority_pct")[i]),
                    Column(f, "board_gender_diversity_pct")[i]),
                Num(3)),
            Num(100))]

SeriesMin(q) ==
    LET v == SelectSeq(q, NotNaN)
    IN  IF v = <<>> THEN NaN
        ELSE v[CHOOSE i \in DOMAIN v : \A j \in DOMAIN v : ~Less(v[j], v[i])]

BinLabels == <<"Very Low", "Low", "Medium", "High", "Very High">>

\* pd.cut(x, bins=5, labels=BinLabels): five equal-width bins over [min, max],
\* each closed on the right, the lowest edge moved down so that min is in
\* the first; a constant column is binned over a range widened by 0.1%.
training_hours_bin(f) ==
    LET x  == Column(f, "avg_training_hours_per_employee")
        mn == SeriesMin(x)
        mx == SeriesMax(x)
        pad(v) == IF v = Num(0) THEN R(1, 1000) ELSE Mul(R(1, 1000), <<Abs(v[1]), v[2]>>)
        lo == IF mn = mx THEN Sub(mn, pad(mn)) ELSE mn
        hi == IF mn = mx THEN Add(mx, pad(mx)) ELSE mx
        edge(k) == Add(lo, Mul(Num(k), Div(Sub(hi, lo), Num(Len(BinLabels)))))
    IN  [i \in DOMAIN f.rows |->
            IF IsNaN(x[i]) THEN "NaN"
            ELSE BinLabels[CHOOSE k \in DOMAIN BinLabels :
                             /\ ~Less(edge(k), x[i])
                             /\ \A j \in 1..(k - 1) : Less(edge(j), x[i])]]

\* Pearson's r is unchanged when a column is multiplied by a positive
\* constant, so each column is brought to integers over the least common
\* denominator of its cells before the sums are taken. The columns
\* correlated are columns of the file, finite in every row.
RECURSIVE CommonDenominator(_)
CommonDenominator(q) ==
    IF q = <<>> THEN 1
    ELSE LET d == CommonDenominator(Tail(q))
         IN  (d \div GCD(d, Head(q)[2])) * Head(q)[2]

Scaled(q) ==
    LET d == CommonDenominator(q)
    IN  [i \in DOMAIN q |-> q[i][1] * (d \div q[i][2])]

RECURSIVE SumProducts(_, _)
SumProducts(x, y) ==
    IF x = <<>> THEN 0 ELSE Head(x) * Head(y) + SumProducts(Tail(x), Tail(y))

\* Pearson's r from the sums over the n rows, kept exact by holding
\* sign(r) * r^2 in the place of r: NaN when either column has no variance
\* over the rows (a single row, or a constant column), because the quotient
\* is then 0/0.
Pearson(n, sx, sy, sxx, syy, sxy) ==
    LET cov == n * sxy - sx * sy
        vx  == n * sxx - sx * sx
        vy  == n * syy - sy * sy
        r2  == Mul(Norm(cov, vx), Norm(cov, vy))
    IN  IF vx = 0 \/ vy = 0 THEN NaN
        ELSE IF cov < 0 THEN Neg(r2) ELSE r2

\* The cell of DataFrame.corr() for the columns x and y.
Corr(x, y) ==
    LET u   == Scaled(x)
        v   == Scaled(y)
        one == [i \in DOMAIN x |-> 1]
    IN  Pearson(Len(x), SumProducts(u, one), SumProducts(v, one), SumProducts(u, u),
                SumProducts(v, v), SumProducts(u, v))

\* frame[columns].corr(): one cell per pair of the listed columns, the
\* matrix symmetric; the sums of a column are taken once.
CorrMatrix(f, columns) ==
    LET n     == Len(f.rows)
        one   == [i \in 1..n |-> 1]
        col   == [k \in DOMAIN columns |-> Scaled(Column(f, columns[k]))]
        sum   == [k \in DOMAIN columns |-> SumProducts(col[k], one)]
        sq    == [k \in DOMAIN columns |-> SumProducts(col[k], col[k])]
        cell  == [k \in DOMAIN columns |->
                     [l \in k..Len(columns) |->
                         Pearson(n, sum[k], sum[l], sq[k], sq[l],
                                 SumProducts(col[k], col[l]))]]
        At(c) == CHOOSE k \in DOMAIN columns : columns[k] = c
    IN  [a \in Range(columns) |->
            [b \in Range(columns) |->
                IF At(a) <= At(b) THEN cell[At(a)][At(b)] ELSE cell[At(b)][At(a)]]]

employee_metrics ==
    <<"avg_training_hours_per_employee", "employee_turnover_pct",
      "employee_engagement_score", "pay_equity_ratio_female_to_male">>

governance_variables ==
    <<"esg_score", "independent_directors_pct", "board_gender_diversity_pct",
      "anti_corruption_training_pct", "esg_policy_coverage_pct",
      "supplier_code_of_conduct_coverage_pct">>

\* The keys of groupby(['year', 'quarter']) and groupby(['year', 'region']).
YearQuarter(f) == [i \in DOMAIN f.rows |-> <<Column(f, "year")[i], Column(f, "quarter")[i]>>]
YearRegion(f) == [i \in DOMAIN f.rows |-> <<Column(f, "year")[i], Column(f, "region")[i]>>]

\* Faulty variant: the region is left out of the comparison, so the keys of
\* one year stay in the order of their first rows.
YearRegionLessByYear(a, b) == a[1] < b[1]

\* (year, region) tuples compare lexicographically, the region as a string.
YearRegionLess(a, b) == a[1] < b[1] \/ (a[1] = b[1] /\ StrLess(a[2], b[2]))

\* The derived columns that the heatmap and the charts after it evaluate,
\* in program order (lines 797-949).
Tab2Reads ==
    <<"training_hours_bin", "social_well_being_index", "social_well_being_index",
      "diversity_inclusion_index", "diversity_inclusion_index", "social_well_being_index",
      "diversity_inclusion_index", "social_well_being_index">>

Tab2(n) ==
    LET n0 == [n EXCEPT !.filtered_df = Copy(@)]
        n1 == SetFrom(n0, "male_pct", male_pct)
        n2 == SetFrom(n1, "social_well_being_index", social_well_being_index)
        n3 == SetFrom(n2, "diversity_inclusion_index", diversity_inclusion_index)
        m1 == Metric(n3, "avg_engagement",
                     LAMBDA f : SeriesMean(Column(f, "employee_engagement_score")))
        m2 == Metric(m1, "avg_turnover",
                     LAMBDA f : SeriesMean(Column(f, "employee_turnover_pct")))
        m3 == Metric(m2, "avg_pay_equity",
                     LAMBDA f : SeriesMean(Column(f, "pay_equity_ratio_female_to_male")))
        m4 == Metric(m3, "social_index",
                     LAMBDA f : SeriesMean(Column(f, "social_well_being_index")))
        m5 == Metric(m4, "minority_trend",
                     LAMBDA f : GroupMean(f, YearRegion(f), YearRegionLess, "minority_pct"))
        m6 == Metric(m5, "turnover_trend",
                     LAMBDA f : GroupMean(f, YearQuarter(f), PairLess,
                                          "employee_turnover_pct"))
        m7 == Metric(m6, "correlation_data", LAMBDA f : CorrMatrix(f, employee_metrics))
        n4 == SetFrom(Reads(m7, <<"social_well_being_index", "male_pct">>),
                      "training_hours_bin", training_hours_bin)
    IN  Reads(n4, Tab2Reads)

(***************************************************************************)
(* Governance tab.                                                         *)
(***************************************************************************)
\* Faulty variant: the weighted sum is divided by the sum of its weights.
governance_index_renormalized(f) ==
    [i \in DOMAIN f.rows |->
        Div(Add(Add(Add(Add(Add(Mul(Column(f, "independent_directors_pct")[i], R(3, 10)),
                                Mul(Column(f, "board_gender_diversity_pct")[i], R(2, 10))),
                            Mul(Column(f, "anti_corruption_training_pct")[i], R(2, 10))),
                        Mul(Column(f, "esg_policy_coverage_pct")[i], R(15, 100))),
                    Mul(Column(f, "supplier_code_of_conduct_coverage_pct")[i], R(15, 100))),
                Mul(Sub(Num(1), Div(Column(f, "controversy_level_0_low_3_high")[i], Num(3))),
                    R(1, 10))),
            R(11, 10))]

governance_effectiveness_index(f) ==
    [i \in DOMAIN f.rows |->
        Add(Add(Add(Add(Add(Mul(Column(f, "independent_directors_pct")[i], R(3, 10)),
                            Mul(Column(f, "board_gender_diversity_pct")[i], R(2, 10))),
                        Mul(Column(f, "anti_corruption_training_pct")[i], R(2, 10))),
                    Mul(Column(f, "esg_policy_coverage_pct")[i], R(15, 100))),
                Mul(Column(f, "supplier_code_of_conduct_coverage_pct")[i], R(15, 100))),
            Mul(Sub(Num(1), Div(Column(f, "controversy_level_0_low_3_high")[i], Num(3))),
                R(1, 10)))]

\* Faulty variant: the rows of the greatest year itself.
previous_year_same(f) ==
    IF IsEmpty(f) THEN f
    ELSE LET top == CHOOSE y \in Range(Column(f, "year")) :
                        \A z \in Range(Column(f, "year")) : z <= y
         IN  BoolIndex(f, [i \in DOMAIN f.rows |-> Column(f, "year")[i] = top])

\* filtered_df[filtered_df['year'] == filtered_df['year'].max() - 1]
previous_year(f) ==
    IF IsEmpty(f) THEN f
    ELSE LET top == CHOOSE y \in Range(Column(f, "year")) :
                        \A z \in Range(Column(f, "year")) : z <= y
         IN  BoolIndex(f, [i \in DOMAIN f.rows |-> Column(f, "year")[i] = top - 1])

risk_columns == <<"data_breaches_count", "whistleblower_reports", "fines_penalties_usd_m">>

\* filtered_df.groupby('region').agg({...: 'sum'}).reset_index(): one row
\* per region present, the regions ascending, with the sum of each column.
risk_data(f) ==
    LET keys  == StableSort(Unique(Column(f, "region")), StrLess)
        In(k) == Positions(Len(f.rows), [i \in DOMAIN f.rows |-> Column(f, "region")[i] = k])
    IN  [g \in DOMAIN keys |->
            [c \in Range(risk_columns) \cup {"region"} |->
                IF c = "region" THEN keys[g]
                ELSE SumSeq([p \in DOMAIN In(keys[g]) |-> Column(f, c)[In(keys[g])[p]]])]]

\* Faulty variant: each value is divided by the greatest one.
MinMaxByGreatest(q) == [i \in DOMAIN q |-> Div(q[i], SeriesMax(q))]

\* (q - q.min()) / (q.max() - q.min()), or 0.5 in every row when the
\* greatest and the smallest value are the same.
MinMax(q) ==
    IF Sub(SeriesMax(q), SeriesMin(q)) # Num(0)
    THEN [i \in DOMAIN q |-> Div(Sub(q[i], SeriesMin(q)), Sub(SeriesMax(q), SeriesMin(q)))]
    ELSE [i \in DOMAIN q |-> R(1, 2)]

\* risk_normalized: the copy of risk_data with each of the three columns
\* normalized over the regions.
risk_normalized(d) ==
    [g \in DOMAIN d |->
        [c \in DOMAIN d[g] |->
            IF c = "region" THEN d[g].region
            ELSE MinMax([h \in DOMAIN d |-> d[h][c]])[g]]]

\* f"{x:.1f}": the value to one decimal, a tie going to the even digit; the
\* float's own rounding error is left out.
Format1(x) ==
    IF ~IsFinite(x) THEN x
    ELSE LET q   == (10 * x[1]) \div x[2]
             rem == (10 * x[1]) % x[2]
         IN  IF 2 * rem > x[2] \/ (2 * rem = x[2] /\ q % 2 = 1)
             THEN Norm(q + 1, 10) ELSE Norm(q, 10)

\* name = value, a variable of the run.
Assign(n, name, value) == [Wrote(n, name) EXCEPT !.metrics = WithMetric(@, name, value)]

gei == "governance_effectiveness_index"

current_gov_index(n) ==
    Assign(Reads(n, <<gei>>), "current_gov_index", SeriesMean(Column(n.filtered_df, gei)))

\* Faulty variant: previous_gov_index is assigned only when the subset has
\* rows of the previous year.
previous_gov_index_without_fallback(n) ==
    IF ~IsEmpty(previous_year(n.filtered_df))
    THEN Assign(Reads(n, <<gei>>), "previous_gov_index",
                SeriesMean(Column(previous_year(n.filtered_df), gei)))
    ELSE n

\* previous_year[gei].mean() if not previous_year.empty else current_gov_index
previous_gov_index(n) ==
    IF ~IsEmpty(previous_year(n.filtered_df))
    THEN Assign(Reads(n, <<gei>>), "previous_gov_index",
                SeriesMean(Column(previous_year(n.filtered_df), gei)))
    ELSE Assign(Reads(n, <<"current_gov_index">>), "previous_gov_index",
                n.metrics.current_gov_index)

\* The delta of the metric: current_gov_index - previous_gov_index to one
\* decimal; evaluating a variable that was never assigned raises NameError.
gov_delta(n) ==
    [Reads(n, <<"current_gov_index", "previous_gov_index">>) EXCEPT !.metrics =
        WithMetric(@, "gov_delta",
                   IF {"current_gov_index", "previous_gov_index"} \subseteq DOMAIN n.metrics
                   THEN Format1(Sub(n.metrics.current_gov_index,
                                    n.metrics.previous_gov_index))
                   ELSE "NameError")]

\* The governance benchmark (lines 1141-1149).
Benchmark(n) == gov_delta(previous_gov_index(current_gov_index(n)))

\* The gauge (lines 1176-1181): its value, and previous_gov_index as the
\* reference of its delta.
Gauge(n) ==
    Reads(Assign(Reads(n, <<gei>>), "gov_index", SeriesMean(Column(n.filtered_df, gei))),
          <<"gov_index", "previous_gov_index">>)

Tab3(n) ==
    LET n1 == SetFrom(n, gei, governance_effectiveness_index)
        n2 == Metric(Reads(n1, <<gei>>), "governance_index",
                     LAMBDA f : SeriesMean(Column(f, gei)))
        n3 == Metric(n2, "risk_data", risk_data)
        n4 == Metric(n3, "risk_normalized", LAMBDA f : risk_normalized(risk_data(f)))
        n5 == Benchmark(n4)
        n6 == Metric(n5, "corr_data", LAMBDA f : CorrMatrix(f, governance_variables))
    IN  Reads(Gauge(n6), <<gei, gei>>)

(***************************************************************************)
(* Trends tab.                                                             *)
(***************************************************************************)
Tab4(n) ==
    LET m1 == Metric(n, "esg_trends",
                     LAMBDA f : GroupMean(f, YearQuarter(f), PairLess, "esg_score"))
        m2 == Metric(m1, "regional_esg",
                     LAMBDA f : GroupMean(f, Column(f, "region"), StrLess, "esg_score"))
    IN  Metric(m2, "dept_esg",
               LAMBDA f : GroupMean(f, Column(f, "department"), StrLess, "esg_score"))

(***************************************************************************)
(* Detailed view and download.                                             *)
(***************************************************************************)
\* Faulty variant: a list of seven columns.
display_columns_seven ==
    <<"company_name", "region", "department", "year", "quarter", "esg_score",
      "renewable_energy_share_pct">>

display_columns ==
    <<"company_name", "region", "department", "year", "quarter", "esg_score",
      "renewable_energy_share_pct", "scope1_emissions_tco2e", "female_pct",
      "employee_engagement_score", "controversy_level_0_low_3_high">>

\* The columns the tabs assign to the working copy, in the order assigned.
AssignedOrder ==
    <<"energy_intensity", "carbon_intensity", "waste_intensity", "water_intensity",
      "weighted_waste_recycled", "norm_carbon_intensity", "green_efficiency_score",
      "male_pct", "social_well_being_index", "diversity_inclusion_index",
      "training_hours_bin", "governance_effectiveness_index">>

\* Faulty variant: the columns assigned by the tabs are kept after the listed ones.
ProjectWithDerived(f, columns) ==
    LET Assigned(c) == c \in DOMAIN f.cols
        more == SelectSeq(AssignedOrder, Assigned)
    IN  [idx   |-> f.idx,
         rows  |-> [i \in DOMAIN f.rows |->
                       [c \in Range(columns) \cup Range(more) |-> Column(f, c)[i]]],
         cols  |-> NoCols,
         order |-> columns \o more]

\* frame[columns].copy(): the listed columns, in the order listed, become the
\* frame's columns (order).
Project(f, columns) ==
    [idx   |-> f.idx,
     rows  |-> [i \in DOMAIN f.rows |-> [c \in Range(columns) |-> Column(f, c)[i]]],
     cols  |-> NoCols,
     order |-> columns]

\* Faulty variant: all three keys ascending.
DetailLessAscending(a, b) ==
    \/ a.year < b.year
    \/ /\ a.year = b.year
       /\ \/ a.quarter < b.quarter
          \/ a.quarter = b.quarter /\ StrLess(a.department, b.department)

\* ['year', 'quarter', 'department'], ascending=[False, False, True]
DetailLess(a, b) ==
    \/ a.year > b.year
    \/ /\ a.year = b.year
       /\ \/ a.quarter > b.quarter
          \/ a.quarter = b.quarter /\ StrLess(a.department, b.department)

\* frame.sort_values(...) of a projected frame: rows and their index labels
\* move together, the columns stay as they are.
SortValues(f, Lt(_, _)) ==
    LET tagged == [i \in DOMAIN f.rows |-> [row |-> f.rows[i], label |-> f.idx[i]]]
        TagLess(x, y) == Lt(x.row, y.row)
        sorted == StableSort(tagged, TagLess)
    IN  [idx   |-> [i \in DOMAIN sorted |-> sorted[i].label],
         rows  |-> [i \in DOMAIN sorted |-> sorted[i].row],
         cols  |-> NoCols,
         order |-> f.order]

\* Faulty variant: a line equal to an earlier line is left out.
ToCsvDistinct(f) ==
    [header |-> f.order,
     lines  |-> Unique([i \in DOMAIN f.rows |->
                           [k \in DOMAIN f.order |-> f.rows[i][f.order[k]]]])]

\* frame.to_csv(index=False): the frame's column names as header, then one
\* line per row in frame order, the cells in column order; no index column.
ToCsv(f) ==
    [header |-> f.order,
     lines  |-> [i \in DOMAIN f.rows |-> [k \in DOMAIN f.order |-> f.rows[i][f.order[k]]]]]

\* The characters of the company names of the model.
Chars(name) ==
    CASE name = "Acme"        -> <<"A", "c", "m", "e">>
      [] name = "Bolt Co"     -> <<"B", "o", "l", "t", " ", "C", "o">>
      [] name = "Big Oil Co"  -> <<"B", "i", "g", " ", "O", "i", "l", " ", "C", "o">>
      [] name = "Nowhere Inc" -> <<"N", "o", "w", "h", "e", "r", "e", " ", "I", "n", "c">>
      [] OTHER                -> <<"N", "o", "n", "e">>

\* Faulty variant: only the first occurrence is replaced.
ReplaceFirst(str, old, new) ==
    [i \in DOMAIN str |->
        IF str[i] = old /\ (\A j \in 1..(i - 1) : str[j] # old) THEN new ELSE str[i]]

\* str.replace(old, new) for single characters: every occurrence.
Replace(str, old, new) == [i \in DOMAIN str |-> IF str[i] = old THEN new ELSE str[i]]

\* f"esg_data_{selected_company.replace(' ', '_')}.csv"
FileName(company) ==
    <<"e", "s", "g", "_", "d", "a", "t", "a", "_">>
        \o Replace(Chars(company), " ", "_") \o <<".", "c", "s", "v">>

\* csv = detailed_df.to_csv(index=False)
Export(n) == [n EXCEPT !.metrics = WithMetric(@, "csv", ToCsv(n.metrics.detailed_df))]

Tab5(n) ==
    LET m1 == Metric(n, "detailed_df",
                     LAMBDA f : SortValues(Project(f, display_columns), DetailLess))
        m2 == Export(m1)
    IN  [m2 EXCEPT !.metrics = WithMetric(@, "file_name", FileName(n.selected.company))]

(***************************************************************************)
(* The two branches of the guard, and the footer after them.               *)
(***************************************************************************)
Warn(s) ==
    /\ pc[s] = "guard"
    /\ NoData(ns[s].filtered_df)
    /\ shown' = [shown EXCEPT ![s] = @ \cup {"warning"}]
    /\ pc' = [pc EXCEPT ![s] = "footer"]
    /\ UNCHANGED <<file, cache, lock, reads, runs, widgets, ns>>

Rendered == {"kpis", "tab1", "tab2", "tab3", "tab4", "tab5", "download"}

\* The else branch: the KPI row, then the five tabs in script order.
Dashboard(s) ==
    /\ pc[s] = "guard"
    /\ ~NoData(ns[s].filtered_df)
    /\ ns' = [ns EXCEPT ![s] = Tab5(Tab4(Tab3(Tab2(Tab1(KeyMetrics(ns[s]))))))]
    /\ shown' = [shown EXCEPT ![s] = @ \cup Rendered]
    /\ pc' = [pc EXCEPT ![s] = "footer"]
    /\ UNCHANGED <<file, cache, lock, reads, runs, widgets>>

Footer(s) ==
    /\ pc[s] = "footer"
    /\ shown' = [shown EXCEPT ![s] = @ \cup {"footer"}]
    /\ pc' = [pc EXCEPT ![s] = "done"]
    /\ UNCHANGED <<file, cache, lock, reads, runs, widgets, ns>>

(***************************************************************************)
(* The dashboard: every session runs the script, any number of times.      *)
(***************************************************************************)
Step(s) ==
    \/ Connect(s) \/ Rerun(s) \/ Interact(s)
    \/ Call(s) \/ Block(s) \/ Acquire(s) \/ ReadOk(s) \/ ReadFails(s)
    \/ Sidebar(s) \/ Filter(s) \/ Warn(s) \/ Dashboard(s) \/ Footer(s)

Next == \E s \in Sessions : Step(s)

Spec == Init /\ [][Next]_vars

(***************************************************************************)
(* The filter on its own: any table of the pool's rows and any selection,  *)
(* whether or not the widgets could produce it, from the filter statement  *)
(* to the end of the run.                                                  *)
(***************************************************************************)
Selections ==
    [company : Companies, years : SUBSET Years, regions : SUBSET Regions,
     departments : SUBSET Departments]

InitFilter ==
    \E t \in SeqsUpTo(MaxFilterRows), sel \in Selections :
        LET one == CHOOSE s \in Sessions : TRUE
        IN  /\ file = [kind |-> "ok", rows |-> t]
            /\ cache = AsFrame(t)
            /\ lock = 0
            /\ reads = 1
            /\ pc = [s \in Sessions |-> IF s = one THEN "filter" ELSE "idle"]
            /\ runs = [s \in Sessions |-> IF s = one THEN 1 ELSE 0]
            /\ widgets = [s \in Sessions |-> IF s = one THEN sel ELSE NoWidgets]
            /\ ns = [s \in Sessions |->
                        IF s = one
                        THEN [Unbound EXCEPT !.df = AsFrame(t), !.selected = sel]
                        ELSE Unbound]
            /\ shown = [s \in Sessions |->
                           IF s = one THEN {"css", "title", "filters"} ELSE {}]

NextFilter == \E s \in Sessions : Filter(s) \/ Warn(s) \/ Dashboard(s) \/ Footer(s)

FilterSpec == InitFilter /\ [][NextFilter]_vars

(***************************************************************************)
(* A session's first run, from the sidebar to the end of the run, over     *)
(* tables with up to three years, four departments, three regions and two  *)
(* companies in any order, rows repeated or not.                           *)
(***************************************************************************)
FirstRunPool ==
    << Dim("Bolt Co", "EU", "Ops", 2022, 1) @@ Pool[1],
       Dim("Bolt Co", "US", "HR", 2023, 1) @@ Pool[4],
       Dim("Bolt Co", "EU", "Fin", 2021, 2) @@ Pool[1],
       Dim("Bolt Co", "APAC", "IT", 2023, 1) @@ Risk(3, 5, 2) @@ Pool[4],
       Dim("Bolt Co", "EU", "Ops", 2023, 2) @@ Pool[1],
       Dim("Big Oil Co", "US", "Ops", 2023, 2) @@ Pool[4] >>

\* Every sequence of at most n rows of pool.
RECURSIVE SeqsOver(_, _)
SeqsOver(pool, n) ==
    IF n = 0 THEN {<<>>}
    ELSE LET shorter == SeqsOver(pool, n - 1)
         IN  shorter \cup {Append(t, pool[i]) : t \in shorter, i \in DOMAIN pool}

InitFirstRun ==
    \E t \in SeqsOver(FirstRunPool, MaxFirstRunRows) :
        LET one == CHOOSE s \in Sessions : TRUE
        IN  /\ file = [kind |-> "ok", rows |-> t]
            /\ cache = AsFrame(t)
            /\ lock = 0
            /\ reads = 1
            /\ pc = [s \in Sessions |-> IF s = one THEN "ui" ELSE "idle"]
            /\ runs = [s \in Sessions |-> IF s = one THEN 1 ELSE 0]
            /\ widgets = [s \in Sessions |-> NoWidgets]
            /\ ns = [s \in Sessions |->
                        IF s = one THEN [Unbound EXCEPT !.df = AsFrame(t)] ELSE Unbound]
            /\ shown = [s \in Sessions |-> IF s = one THEN {"css"} ELSE {}]

NextFirstRun ==
    \E s \in Sessions : Sidebar(s) \/ Filter(s) \/ Warn(s) \/ Dashboard(s) \/ Footer(s)

FirstRunSpec == InitFirstRun /\ [][NextFirstRun]_vars

(***************************************************************************)
(* Two sessions over one table: one in its first run, with the default     *)
(* selection, the other in a later run with any selection its widgets can  *)
(* hold.                                                                   *)
(***************************************************************************)
PairTables ==
    {t \in SeqsUpTo(MaxPairRows) :
        \A i, j \in DOMAIN t : i < j => StrictlyBefore(t[i], t[j])}

InitPair ==
    \E t \in PairTables :
        \E sel \in Selectable(AsFrame(t)) :
            /\ file = [kind |-> "ok", rows |-> t]
            /\ cache = AsFrame(t)
            /\ lock = 0
            /\ reads = 1
            /\ pc = [s \in Sessions |-> IF s = 1 THEN "ui" ELSE "filter"]
            /\ runs = [s \in Sessions |-> s]
            /\ widgets = [s \in Sessions |-> IF s = 1 THEN NoWidgets ELSE sel]
            /\ ns = [s \in Sessions |->
                        IF s = 1 THEN [Unbound EXCEPT !.df = AsFrame(t)]
                        ELSE [Unbound EXCEPT !.df = AsFrame(t), !.selected = sel]]
            /\ shown = [s \in Sessions |->
                           IF s = 1 THEN {"css"} ELSE {"css", "title", "filters"}]

NextPair ==
    \E s \in Sessions : Sidebar(s) \/ Filter(s) \/ Warn(s) \/ Dashboard(s) \/ Footer(s)

PairSpec == InitPair /\ [][NextPair]_vars

(***************************************************************************)
(* Properties.                                                             *)
(***************************************************************************)
Filtered(s) == ns[s].filtered_df # NoFrame
Loaded(s) == ns[s].df # NoFrame

\* The four predicates of the filter, for row r and selection sel.
Satisfies(r, sel) ==
    r.company_name = sel.company /\ r.year \in sel.years
        /\ r.region \in sel.regions /\ r.department \in sel.departments

\* C1. Filter soundness: every row of the filtered frame satisfies the four
\* predicates at once, is the row of the table that its index label names,
\* and the filtered frame is no longer than the table.
FilterSound ==
    \A s \in Sessions :
        Filtered(s) =>
            LET f == ns[s].filtered_df
                t == ns[s].df
            IN  /\ Len(f.rows) <= Len(t.rows)
                /\ \A k \in DOMAIN f.rows :
                      /\ f.rows[k].company_name = ns[s].selected.company
                      /\ f.rows[k].year \in ns[s].selected.years
                      /\ f.rows[k].region \in ns[s].selected.regions
                      /\ f.rows[k].department \in ns[s].selected.departments
                      /\ f.idx[k] \in DOMAIN t.rows
                      /\ f.rows[k] = t.rows[f.idx[k]]

\* A filtered frame that kept a row and left another out.
FilterSoundWitness ==
    \E s \in Sessions :
        /\ Filtered(s)
        /\ Len(ns[s].filtered_df.rows) >= 1
        /\ Len(ns[s].filtered_df.rows) < Len(ns[s].df.rows)

\* C2. Filter completeness: the index labels of the filtered frame are, in
\* increasing order and each once, exactly the rows of the table that
\* satisfy the four predicates, and each label carries its row.
FilterComplete ==
    \A s \in Sessions :
        Filtered(s) =>
            LET f == ns[s].filtered_df
                t == ns[s].df
            IN  /\ \A j, k \in DOMAIN f.idx : j < k => f.idx[j] < f.idx[k]
                /\ Range(f.idx) = {i \in DOMAIN t.rows : Satisfies(t.rows[i], ns[s].selected)}
                /\ \A k \in DOMAIN f.idx : f.rows[k] = t.rows[f.idx[k]]

\* Two equal rows of the table, both kept.
FilterCompleteWitness ==
    \E s \in Sessions :
        /\ Filtered(s)
        /\ Len(ns[s].filtered_df.rows) = 2
        /\ ns[s].filtered_df.rows[1] = ns[s].filtered_df.rows[2]

\* C3. Empty-result guard: a run whose filtered frame is empty computes no
\* derived column and no metric, renders none of the KPI row, the tabs and
\* the download, shows no exception, and has shown the warning once it is
\* past the guard.
EmptyGuard ==
    \A s \in Sessions :
        (Filtered(s) /\ Len(ns[s].filtered_df.rows) = 0) =>
            /\ ns[s].filtered_df.cols = NoCols
            /\ ns[s].metrics = <<>>
            /\ shown[s] \cap (Rendered \cup {"exception"}) = {}
            /\ pc[s] \in {"guard", "footer", "done"}
            /\ pc[s] \in {"footer", "done"} => "warning" \in shown[s]

\* A finished run over a non-empty table whose selection matched no row.
EmptyGuardWitness ==
    \E s \in Sessions :
        /\ pc[s] = "done"
        /\ Len(ns[s].df.rows) > 0
        /\ Len(ns[s].filtered_df.rows) = 0
        /\ "warning" \in shown[s]

\* Does the selection name a value that no row of the table has, or nothing?
Unmatched(t, sel) ==
    \/ sel.years = {} \/ sel.regions = {} \/ sel.departments = {}
    \/ ~(sel.years \subseteq {t[i].year : i \in DOMAIN t})
    \/ ~(sel.regions \subseteq {t[i].region : i \in DOMAIN t})
    \/ ~(sel.departments \subseteq {t[i].department : i \in DOMAIN t})

\* C4. Validation-free filtering: whatever the selection names, the run
\* raises nothing; the filtered frame is what the selection cut down to the
\* values of the table gives, and a run in which nothing matched ends with
\* the warning and nothing else of the dashboard.
ValidationFree ==
    \A s \in Sessions :
        /\ pc[s] # "crashed"
        /\ "exception" \notin shown[s]
        /\ Filtered(s) =>
              LET t   == ns[s].df.rows
                  sel == ns[s].selected
                  known == [company     |-> sel.company,
                            years       |-> sel.years \cap {t[i].year : i \in DOMAIN t},
                            regions     |-> sel.regions \cap {t[i].region : i \in DOMAIN t},
                            departments |-> sel.departments
                                               \cap {t[i].department : i \in DOMAIN t}]
              IN  /\ Range(ns[s].filtered_df.idx) = {i \in DOMAIN t : Satisfies(t[i], known)}
                  /\ (pc[s] = "done" /\ {i \in DOMAIN t : Satisfies(t[i], known)} = {}) =>
                        ("warning" \in shown[s] /\ shown[s] \cap Rendered = {})

\* A finished run whose selection named an unknown year and an unknown region
\* beside known ones, and still kept a row.
ValidationFreeWitness ==
    \E s \in Sessions :
        /\ pc[s] = "done"
        /\ 1999 \in ns[s].selected.years
        /\ "Mars" \in ns[s].selected.regions
        /\ Len(ns[s].filtered_df.rows) >= 1
        /\ Unmatched(ns[s].df.rows, ns[s].selected)

Views == {"title", "filters", "warning", "footer"} \cup Rendered

\* C7. Fatal load failure: with a missing or malformed file no run gets
\* past load_data: nothing of the page is shown, no script variable is
\* bound, nothing is stored; a table that a run does use is the whole file.
LoadFailureFatal ==
    /\ file.kind # "ok" =>
          /\ cache = NoFrame
          /\ \A s \in Sessions :
                /\ shown[s] \cap Views = {}
                /\ ns[s] = Unbound
                /\ pc[s] \in {"idle", "call", "wait", "blocked", "read", "crashed"}
                /\ "exception" \in shown[s] <=> pc[s] = "crashed"
    /\ \A s \in Sessions : Loaded(s) => (file.kind = "ok" /\ ns[s].df.rows = file.rows)

\* A run has ended with the exception of read_csv for a malformed file.
LoadFailureWitness ==
    \E s \in Sessions :
        file.kind = "malformed" /\ pc[s] = "crashed" /\ "exception" \in shown[s]

\* The columns the tabs assign.
DerivedColumns ==
    {"energy_intensity", "carbon_intensity", "waste_intensity", "water_intensity",
     "weighted_waste_recycled", "norm_carbon_intensity", "green_efficiency_score",
     "male_pct", "social_well_being_index", "diversity_inclusion_index",
     "training_hours_bin", "governance_effectiveness_index"}

\* C8. Source-table immutability: the stored table and every run's df are
\* the file as read: the same rows under the same labels, and no assigned
\* column.  Derived columns are columns of filtered_df only.
SourceImmutable ==
    /\ cache \in {NoFrame, AsFrame(file.rows)}
    /\ \A s \in Sessions :
          Loaded(s) =>
              /\ ns[s].df = AsFrame(file.rows)
              /\ DOMAIN ns[s].df.cols = {}

\* A finished run whose working copy has every derived column.
SourceImmutableWitness ==
    \E s \in Sessions :
        /\ pc[s] = "done"
        /\ Filtered(s)
        /\ DOMAIN ns[s].filtered_df.cols = DerivedColumns
        /\ ns[s].df = AsFrame(file.rows)

\* What a run has produced.
Results(s) == <<ns[s].filtered_df, ns[s].metrics, shown[s]>>

Own(s) == <<pc[s], runs[s], widgets[s], ns[s], shown[s]>>

\* C10. Session isolation: a step changes the widget values, the script
\* variables and the rendered elements of one session at most, the one that
\* takes it; the stored table, its lock and the read count are all that
\* sessions share.
Isolation ==
    [][\A s \in Sessions :
          (pc'[s] = pc[s] /\ runs'[s] = runs[s]) => Own(s)' = Own(s)]_vars

\* Two sessions with different selections, one finished and one about to
\* filter.
IsolationWitness ==
    \E s, t \in Sessions :
        /\ pc[s] = "done" /\ pc[t] = "filter"
        /\ widgets[s] # widgets[t]
        /\ ns[s].metrics # <<>>

\* C11. Default selection: on a session's first run the selection is the
\* company of the table's first row, the two greatest years of the table
\* (all of them when there are fewer), every region of the table, and the
\* departments of which fewer than three others appear earlier in the table.
\* An empty table gives no company and empty lists.
DefaultSelection ==
    \A s \in Sessions :
        (runs[s] = 1 /\ Loaded(s) /\ ns[s].selected # NoWidgets) =>
            LET t   == ns[s].df.rows
                sel == ns[s].selected
                all == {t[i].year : i \in DOMAIN t}
            IN  /\ widgets[s] = sel
                /\ sel.company = IF t = <<>> THEN NoCompany ELSE t[1].company_name
                /\ sel.years \subseteq all
                /\ Cardinality(sel.years) = IF Cardinality(all) < 2 THEN Cardinality(all) ELSE 2
                /\ \A y \in sel.years : \A z \in all \ sel.years : z < y
                /\ sel.regions = {t[i].region : i \in DOMAIN t}
                /\ sel.departments =
                      {t[i].department : i \in
                          {k \in DOMAIN t :
                              Cardinality({t[j].department : j \in 1..(k - 1)}
                                              \ {t[k].department}) < 3}}

\* A finished first run over a table with three years and four departments,
\* the year of its first row the smallest: one year and one department are
\* left out of the selection.
DefaultSelectionWitness ==
    \E s \in Sessions :
        LET t == ns[s].df.rows
        IN  /\ pc[s] = "done"
            /\ runs[s] = 1
            /\ Cardinality({t[i].year : i \in DOMAIN t}) = 3
            /\ Cardinality({t[i].department : i \in DOMAIN t}) = 4
            /\ \A i \in DOMAIN t : t[1].year <= t[i].year
            /\ Cardinality(ns[s].selected.years) = 2
            /\ Cardinality(ns[s].selected.departments) = 3

\* A finished run of the else branch.
Finished(s) == pc[s] = "done" /\ ns[s].metrics # <<>>

\* The mean of a/b over the rows of f whose b is not zero; NaN when there is none.
MeanWhereDefined(f, a, b) ==
    LET NonZero(i) == Column(f, b)[i] # Num(0)
        keep == SelectSeq([i \in DOMAIN f.rows |-> i], NonZero)
    IN  IF keep = <<>> THEN NaN
        ELSE Div(SumSeq([k \in DOMAIN keep |->
                            Div(Column(f, a)[keep[k]], Column(f, b)[keep[k]])]),
                 Num(Len(keep)))

\* C12 as stated. Zero production output: the means of energy_intensity,
\* waste_intensity and water_intensity shown by a run leave out the rows
\* whose production_output_units is 0; with one row of production 10 and
\* energy 50 and one row of production 0 the mean energy intensity is 5.
ZeroProductionExcluded ==
    \A s \in Sessions :
        Finished(s) =>
            LET f == ns[s].filtered_df
            IN  /\ ns[s].metrics.avg_energy_intensity =
                      MeanWhereDefined(f, "energy_consumption_mwh", "production_output_units")
                /\ ns[s].metrics.avg_waste_intensity =
                      MeanWhereDefined(f, "waste_generated_tonnes", "production_output_units")
                /\ ns[s].metrics.avg_water_intensity =
                      MeanWhereDefined(f, "water_withdrawal_m3", "production_output_units")

\* Is zero the greatest value of the series, NaN cells apart?
MaxIsZero(q) ==
    /\ \E i \in DOMAIN q : q[i] = Num(0)
    /\ \A i \in DOMAIN q : IsNaN(q[i]) \/ ~Less(Num(0), q[i])

\* The mean of the cells of q that are not NaN; NaN when there is none.
MeanOfDefined(q) ==
    LET Defined(i) == q[i] # NaN
        keep == SelectSeq([i \in DOMAIN q |-> i], Defined)
    IN  IF keep = <<>> THEN NaN
        ELSE Div(SumSeq([k \in DOMAIN keep |-> q[keep[k]]]), Num(Len(keep)))

\* C13. Zero subset maximum: a run whose greatest carbon_intensity is 0
\* has NaN as norm_carbon_intensity and green_efficiency_score of every
\* row, and one whose greatest avg_training_hours_per_employee is 0 has NaN
\* as social_well_being_index of every row; the run raises nothing and
\* renders the whole dashboard; the means shown for the two scores are the
\* means of the rows that are not NaN, which is NaN when no row is left.
ZeroMaxSentinel ==
    \A s \in Sessions :
        Finished(s) =>
            LET f == ns[s].filtered_df
                m == ns[s].metrics
            IN  /\ "exception" \notin shown[s] /\ Rendered \subseteq shown[s]
                /\ MaxIsZero(Column(f, "carbon_intensity")) =>
                      /\ \A i \in DOMAIN f.rows :
                            /\ Column(f, "norm_carbon_intensity")[i] = NaN
                            /\ Column(f, "green_efficiency_score")[i] = NaN
                      /\ \A g \in DOMAIN m.green_score_dept : m.green_score_dept[g].value = NaN
                /\ MaxIsZero(Column(f, "avg_training_hours_per_employee")) =>
                      /\ \A i \in DOMAIN f.rows : Column(f, "social_well_being_index")[i] = NaN
                      /\ m.social_index = NaN
                /\ m.social_index = MeanOfDefined(Column(f, "social_well_being_index"))
                /\ \A g \in DOMAIN m.green_score_dept :
                      m.green_score_dept[g].value =
                          MeanOfDefined(
                              LET In(i) == Column(f, "department")[i] = m.green_score_dept[g].key
                                  at == SelectSeq([i \in DOMAIN f.rows |-> i], In)
                              IN  [k \in DOMAIN at |-> Column(f, "green_efficiency_score")[at[k]]])

\* A finished run whose only carbon intensity and only training hours are 0.
ZeroMaxWitness ==
    \E s \in Sessions :
        /\ Finished(s)
        /\ MaxIsZero(Column(ns[s].filtered_df, "carbon_intensity"))
        /\ MaxIsZero(Column(ns[s].filtered_df, "avg_training_hours_per_employee"))
        /\ ns[s].metrics.social_index = NaN

\* The position in frame f of the row with index label l.
At(f, l) == CHOOSE k \in DOMAIN f.idx : f.idx[k] = l

\* The index labels two frames share.
Shared(f, g) == Range(f.idx) \cap Range(g.idx)

\* C14 as stated. Filter-relative normalization: whenever two runs differ in
\* the greatest carbon_intensity (avg_training_hours_per_employee) of their
\* filtered rows, every row in both has different green_efficiency_score
\* (social_well_being_index) in the two runs.
ScoreFollowsMax ==
    \A s, t \in Sessions :
        (Finished(s) /\ Finished(t)) =>
            LET f == ns[s].filtered_df
                g == ns[t].filtered_df
            IN  \A l \in Shared(f, g) :
                    /\ SeriesMax(Column(f, "carbon_intensity"))
                            # SeriesMax(Column(g, "carbon_intensity"))
                          => Column(f, "green_efficiency_score")[At(f, l)]
                                # Column(g, "green_efficiency_score")[At(g, l)]
                    /\ SeriesMax(Column(f, "avg_training_hours_per_employee"))
                            # SeriesMax(Column(g, "avg_training_hours_per_employee"))
                          => Column(f, "social_well_being_index")[At(f, l)]
                                # Column(g, "social_well_being_index")[At(g, l)]

\* C14 as amended. The normalized term of a row is its value divided by the
\* greatest value among the filtered rows of the run; and whenever two runs
\* differ in that greatest value, every row in both whose own
\* carbon_intensity (avg_training_hours_per_employee) is not zero has
\* different green_efficiency_score (social_well_being_index) in the two
\* runs.  (A row whose own value is 0 keeps its score: 0/max is 0 for
\* every max.)
FilterRelative ==
    /\ \A s \in Sessions :
          Finished(s) =>
              LET f  == ns[s].filtered_df
                  ci == Column(f, "carbon_intensity")
                  th == Column(f, "avg_training_hours_per_employee")
              IN  \A i \in DOMAIN f.rows :
                      /\ Column(f, "norm_carbon_intensity")[i]
                            = Sub(Num(1), Div(ci[i], SeriesMax(ci)))
                      /\ Column(f, "social_well_being_index")[i]
                            = Mul(Num(25),
                                  Add(Add(Add(Div(f.rows[i].employee_engagement_score, Num(100)),
                                              Sub(Num(1), f.rows[i].employee_turnover_pct)),
                                          f.rows[i].pay_equity_ratio_female_to_male),
                                      Div(th[i], SeriesMax(th))))
    /\ \A s, t \in Sessions :
          (Finished(s) /\ Finished(t)) =>
              LET f == ns[s].filtered_df
                  g == ns[t].filtered_df
              IN  \A l \in Shared(f, g) :
                      /\ ( /\ SeriesMax(Column(f, "carbon_intensity"))
                                  # SeriesMax(Column(g, "carbon_intensity"))
                           /\ Column(f, "carbon_intensity")[At(f, l)] # Num(0) )
                            => Column(f, "green_efficiency_score")[At(f, l)]
                                  # Column(g, "green_efficiency_score")[At(g, l)]
                      /\ ( /\ SeriesMax(Column(f, "avg_training_hours_per_employee"))
                                  # SeriesMax(Column(g, "avg_training_hours_per_employee"))
                           /\ f.rows[At(f, l)].avg_training_hours_per_employee # Num(0) )
                            => Column(f, "social_well_being_index")[At(f, l)]
                                  # Column(g, "social_well_being_index")[At(g, l)]

\* Two finished runs over one table with different greatest carbon
\* intensity and a row in both that scores differently, the table holding a
\* row outside one of the two selections.
FilterRelativeWitness ==
    \E s, t \in Sessions :
        /\ Finished(s) /\ Finished(t)
        /\ Len(ns[t].filtered_df.rows) < Len(ns[s].filtered_df.rows)
        /\ \E l \in Shared(ns[s].filtered_df, ns[t].filtered_df) :
              /\ SeriesMax(Column(ns[s].filtered_df, "carbon_intensity"))
                    # SeriesMax(Column(ns[t].filtered_df, "carbon_intensity"))
              /\ Column(ns[s].filtered_df, "green_efficiency_score")[At(ns[s].filtered_df, l)]
                    # Column(ns[t].filtered_df, "green_efficiency_score")[At(ns[t].filtered_df, l)]
              /\ IsFinite(Column(ns[t].filtered_df, "green_efficiency_score")[At(ns[t].filtered_df, l)])
              /\ IsFinite(Column(ns[s].filtered_df, "green_efficiency_score")[At(ns[s].filtered_df, l)])

\* The derivation statements of the three tabs, run on the namespace n.
Derive(n) == Tab3(Tab2(Tab1(n)))

\* C15. Idempotence of derivation: running the derivation statements again
\* on the working copy that already has the derived columns leaves every
\* derived column, every row and every index label as it is.
DeriveIdempotent ==
    \A s \in Sessions :
        Finished(s) =>
            LET again == Derive(ns[s])
            IN  /\ again.filtered_df = ns[s].filtered_df
                /\ Derive(again).filtered_df = ns[s].filtered_df

\* A finished run over two rows with every derived column, among them an
\* infinite energy intensity and a finite one.
DeriveIdempotentWitness ==
    \E s \in Sessions :
        /\ Finished(s)
        /\ Len(ns[s].filtered_df.rows) = 2
        /\ DOMAIN ns[s].filtered_df.cols = DerivedColumns
        /\ \E i, j \in DOMAIN ns[s].filtered_df.rows :
              /\ ~IsFinite(Column(ns[s].filtered_df, "energy_intensity")[i])
              /\ IsFinite(Column(ns[s].filtered_df, "energy_intensity")[j])

\* A row whose five governance percentages are all p and whose controversy
\* level is c.
GovernanceRow(p, c) ==
    [Pool[1] EXCEPT !.independent_directors_pct = p, !.board_gender_diversity_pct = p,
                    !.anti_corruption_training_pct = p, !.esg_policy_coverage_pct = p,
                    !.supplier_code_of_conduct_coverage_pct = p,
                    !.controversy_level_0_low_3_high = Num(c)]

\* C16. Governance weight sum: sixty times the index of a row is
\* 18*independent + 12*board diversity + 12*anti-corruption + 9*policy
\* + 9*supplier code + 6 - 2*controversy, that is, the weights 0.3, 0.2,
\* 0.2, 0.15, 0.15 and 0.1*(1 - controversy/3) without renormalization: a
\* row with every percentage 1 and controversy 0 has index 11/10, one with
\* every percentage 0 and controversy 3 has index 0.
GovernanceWeights ==
    /\ governance_effectiveness_index(AsFrame(<<GovernanceRow(Num(1), 0)>>))[1] = R(11, 10)
    /\ governance_effectiveness_index(AsFrame(<<GovernanceRow(Num(0), 3)>>))[1] = Num(0)
    /\ \A s \in Sessions :
          Finished(s) =>
              LET f == ns[s].filtered_df
              IN  \A i \in DOMAIN f.rows :
                      Mul(Num(60), Column(f, "governance_effectiveness_index")[i])
                        = Sub(Add(Add(Add(Add(Add(
                              Mul(Num(18), f.rows[i].independent_directors_pct),
                              Mul(Num(12), f.rows[i].board_gender_diversity_pct)),
                              Mul(Num(12), f.rows[i].anti_corruption_training_pct)),
                              Mul(Num(9), f.rows[i].esg_policy_coverage_pct)),
                              Mul(Num(9), f.rows[i].supplier_code_of_conduct_coverage_pct)),
                              Num(6)),
                              Mul(Num(2), f.rows[i].controversy_level_0_low_3_high))

\* A finished run with a row of controversy level 1, whose index is 203/300,
\* and a row of controversy level 3.
GovernanceWeightsWitness ==
    \E s \in Sessions :
        /\ Finished(s)
        /\ \E i, j \in DOMAIN ns[s].filtered_df.rows :
              /\ ns[s].filtered_df.rows[i].controversy_level_0_low_3_high = Num(1)
              /\ Column(ns[s].filtered_df, "governance_effectiveness_index")[i] = R(203, 300)
              /\ ns[s].filtered_df.rows[j].controversy_level_0_low_3_high = Num(3)

\* Does a row with keys a come after one with keys b when rows are ordered by
\* year descending, then quarter descending, then department ascending?
ComesAfter(a, b) ==
    \/ a.year < b.year
    \/ a.year = b.year /\ a.quarter < b.quarter
    \/ a.year = b.year /\ a.quarter = b.quarter /\ StrLess(b.department, a.department)

\* The year, quarter and department written on a line of the exported text.
LineKeys(csv, k) ==
    LET Cell(name) == csv.lines[k][CHOOSE c \in DOMAIN csv.header : csv.header[c] = name]
    IN  [year |-> Cell("year"), quarter |-> Cell("quarter"), department |-> Cell("department")]

\* C17. Download row order: in the detailed view and in the exported text
\* no row comes after the row that follows it, in the order year
\* descending, quarter descending, department ascending; the exported text
\* has one line per row of the detailed view, in the same order, and the
\* detailed view has the filtered rows.
DownloadOrder ==
    \A s \in Sessions :
        Finished(s) =>
            LET d   == ns[s].metrics.detailed_df
                csv == ns[s].metrics.csv
            IN  /\ Len(d.rows) = Len(ns[s].filtered_df.rows)
                /\ Range(d.idx) = Range(ns[s].filtered_df.idx)
                /\ Len(csv.lines) = Len(d.rows)
                /\ \A k \in DOMAIN d.rows :
                      LineKeys(csv, k) = [year |-> d.rows[k].year, quarter |-> d.rows[k].quarter,
                                          department |-> d.rows[k].department]
                /\ \A k \in 1..(Len(d.rows) - 1) :
                      /\ ~ComesAfter(d.rows[k], d.rows[k + 1])
                      /\ ~ComesAfter(LineKeys(csv, k), LineKeys(csv, k + 1))

\* A finished run whose export has moved rows: two rows of one year and
\* quarter put in department order against the table's order, and a row of
\* a later year put before a row the table has earlier.
DownloadOrderWitness ==
    \E s \in Sessions :
        /\ Finished(s)
        /\ LET d == ns[s].metrics.detailed_df
           IN  /\ \E k \in 1..(Len(d.rows) - 1) :
                     /\ d.rows[k].year = d.rows[k + 1].year
                     /\ d.rows[k].quarter = d.rows[k + 1].quarter
                     /\ d.rows[k].department # d.rows[k + 1].department
                     /\ d.idx[k] > d.idx[k + 1]
               /\ \E k \in 1..(Len(d.rows) - 1) :
                     /\ d.rows[k].year > d.rows[k + 1].year
                     /\ d.idx[k] > d.idx[k + 1]

\* C18. Download column set: the header of the exported text is
\* company_name, region, department, year, quarter, esg_score,
\* renewable_energy_share_pct, scope1_emissions_tco2e, female_pct,
\* employee_engagement_score, controversy_level_0_low_3_high, in that
\* order; every line holds, in that order, those cells of the table row it
\* exports; none of the columns that the tabs have assigned to the working
\* copy by then is among them.
DownloadColumns ==
    \A s \in Sessions :
        Finished(s) =>
            LET d   == ns[s].metrics.detailed_df
                csv == ns[s].metrics.csv
            IN  /\ csv.header =
                      <<"company_name", "region", "department", "year", "quarter",
                        "esg_score", "renewable_energy_share_pct", "scope1_emissions_tco2e",
                        "female_pct", "employee_engagement_score",
                        "controversy_level_0_low_3_high">>
                /\ DOMAIN ns[s].filtered_df.cols = DerivedColumns
                /\ Range(csv.header) \cap DerivedColumns = {}
                /\ d.order = csv.header
                /\ \A k \in DOMAIN csv.lines :
                      /\ DOMAIN csv.lines[k] = DOMAIN csv.header
                      /\ DOMAIN d.rows[k] = Range(csv.header)
                      /\ \A c \in DOMAIN csv.header :
                            csv.lines[k][c] = ns[s].df.rows[d.idx[k]][csv.header[c]]

\* A finished run that exported a line while its working copy had all
\* twelve assigned columns.
DownloadColumnsWitness ==
    \E s \in Sessions :
        /\ Finished(s)
        /\ Len(ns[s].metrics.csv.lines) >= 1
        /\ Cardinality(DOMAIN ns[s].filtered_df.cols) = 12
        /\ "female_pct" \in Range(ns[s].metrics.csv.header)

\* C19 as stated. Download column count: the exported text has exactly
\* seven columns.
SevenColumns ==
    \A s \in Sessions : Finished(s) => Len(ns[s].metrics.csv.header) = 7

\* C19 as amended. Download column count: the exported text has exactly
\* eleven columns: eleven different names in the header and eleven cells
\* on every line.
ElevenColumns ==
    \A s \in Sessions :
        Finished(s) =>
            /\ Len(ns[s].metrics.csv.header) = 11
            /\ Cardinality(Range(ns[s].metrics.csv.header)) = 11
            /\ \A k \in DOMAIN ns[s].metrics.csv.lines : Len(ns[s].metrics.csv.lines[k]) = 11

\* A finished run that exported four lines under a header of eleven names.
ElevenColumnsWitness ==
    \E s \in Sessions :
        /\ Finished(s)
        /\ Len(ns[s].metrics.csv.lines) = 4
        /\ Len(ns[s].metrics.csv.header) = 11

\* C20. Download filename: the file name is esg_data_, then the selected
\* company's name with an underscore in the place of every space and every
\* other character as it is, then .csv; it holds no space.
DownloadFileName ==
    \A s \in Sessions :
        Finished(s) =>
            LET name == ns[s].metrics.file_name
                c    == Chars(ns[s].selected.company)
            IN  /\ Len(name) = 9 + Len(c) + 4
                /\ SubSeq(name, 1, 9) = <<"e", "s", "g", "_", "d", "a", "t", "a", "_">>
                /\ SubSeq(name, 10 + Len(c), 13 + Len(c)) = <<".", "c", "s", "v">>
                /\ \A i \in DOMAIN c : name[9 + i] = IF c[i] = " " THEN "_" ELSE c[i]
                /\ " " \notin Range(name)

\* A finished run whose selected company has two spaces in its name.
DownloadFileNameWitness ==
    \E s \in Sessions :
        /\ Finished(s)
        /\ ns[s].selected.company = "Big Oil Co"
        /\ Cardinality({i \in DOMAIN ns[s].metrics.file_name :
                            ns[s].metrics.file_name[i] = "_"}) = 4

\* Does the aggregate g hold exactly one row for each key among keyOf, the
\* keys of the filtered rows, and no other row?
OneRowPerKey(g, keyOf) ==
    /\ {g[k].key : k \in DOMAIN g} = Range(keyOf)
    /\ Len(g) = Cardinality(Range(keyOf))

\* C21. No empty groups: each aggregate of a run, by year, by region, by
\* department, by (year, region) and by (year, quarter), has one row for
\* every key that a filtered row has and no row for any other key, whether
\* or not the table has that key in a row outside the selection.
NoEmptyGroups ==
    \A s \in Sessions :
        Finished(s) =>
            LET f == ns[s].filtered_df
                m == ns[s].metrics
            IN  /\ OneRowPerKey(m.energy_intensity_trend, Column(f, "year"))
                /\ OneRowPerKey(m.green_score_dept, Column(f, "department"))
                /\ OneRowPerKey(m.minority_trend, YearRegion(f))
                /\ OneRowPerKey(m.turnover_trend, YearQuarter(f))
                /\ OneRowPerKey(m.esg_trends, YearQuarter(f))
                /\ OneRowPerKey(m.regional_esg, Column(f, "region"))
                /\ OneRowPerKey(m.dept_esg, Column(f, "department"))

\* A finished run over a table that has a year, a department and a region
\* that no filtered row has, two filtered rows sharing a department.
NoEmptyGroupsWitness ==
    \E s \in Sessions :
        /\ Finished(s)
        /\ LET f == ns[s].filtered_df
               t == ns[s].df
           IN  /\ Range(Column(t, "year")) \ Range(Column(f, "year")) # {}
               /\ Range(Column(t, "department")) \ Range(Column(f, "department")) # {}
               /\ Range(Column(t, "region")) \ Range(Column(f, "region")) # {}
               /\ Len(ns[s].metrics.dept_esg) < Len(f.rows)

\* Has the series the same value in every row (one row included)?
Constant(q) == \A i, j \in DOMAIN q : q[i] = q[j]

\* C22 as stated. Correlation N/A: in the two correlation matrices of a run
\* a cell of which either column does not vary over the filtered rows is a
\* marker, not the indeterminate value NaN.
CorrelationMarked ==
    \A s \in Sessions :
        Finished(s) =>
            LET f == ns[s].filtered_df
                m == ns[s].metrics
            IN  /\ \A a, b \in Range(employee_metrics) :
                      (Constant(Column(f, a)) \/ Constant(Column(f, b)))
                          => ~IsNaN(m.correlation_data[a][b])
                /\ \A a, b \in Range(governance_variables) :
                      (Constant(Column(f, a)) \/ Constant(Column(f, b)))
                          => ~IsNaN(m.corr_data[a][b])

\* (scope1 + scope2 + scope3) / revenue of one row of the file.
CarbonOf(row) ==
    Div(Add(row.scope1_emissions_tco2e,
            Add(row.scope2_emissions_tco2e, row.scope3_emissions_tco2e)),
        row.revenue_usd_m)

\* The greatest CarbonOf over the rows of f.
GreatestCarbon(f) ==
    CarbonOf(f.rows[CHOOSE i \in DOMAIN f.rows :
                        \A j \in DOMAIN f.rows :
                            ~Less(CarbonOf(f.rows[i]), CarbonOf(f.rows[j]))])

\* C23. Green efficiency score: in a finished run over a non-empty subset
\* whose greatest carbon intensity is not zero, every row's
\* green_efficiency_score is 40 * (1 - carbon/greatest carbon)
\* + 30 * renewable_energy_share_pct + 30 * waste_recycled_pct, with carbon
\* = (scope1 + scope2 + scope3) / revenue_usd_m of the row; for a row that
\* holds the greatest carbon intensity this is 30 * (renewable + recycled).
GreenEfficiencyFormula ==
    \A s \in Sessions :
        Finished(s) =>
            LET f == ns[s].filtered_df
            IN  (f.rows # <<>> /\ GreatestCarbon(f) # Num(0)) =>
                    \A i \in DOMAIN f.rows :
                        LET row  == f.rows[i]
                            rest == Mul(Num(30), Add(row.renewable_energy_share_pct,
                                                     row.waste_recycled_pct))
                        IN  /\ Column(f, "carbon_intensity")[i] = CarbonOf(row)
                            /\ Column(f, "green_efficiency_score")[i]
                                  = Add(Mul(Num(40),
                                            Sub(Num(1), Div(CarbonOf(row), GreatestCarbon(f)))),
                                        rest)
                            /\ CarbonOf(row) = GreatestCarbon(f) =>
                                  Column(f, "green_efficiency_score")[i] = rest

\* C23 witness: a finished run over two rows of different carbon intensity,
\* the greater not zero; the row below the greatest has a carbon term
\* strictly between 0 and 40.
GreenEfficiencyWitness ==
    \E s \in Sessions :
        /\ Finished(s)
        /\ LET f == ns[s].filtered_df
           IN  /\ Len(f.rows) = 2
               /\ GreatestCarbon(f) # Num(0)
               /\ \E i, j \in DOMAIN f.rows :
                     /\ CarbonOf(f.rows[i]) = GreatestCarbon(f)
                     /\ Less(Num(0), CarbonOf(f.rows[j]))
                     /\ Less(CarbonOf(f.rows[j]), CarbonOf(f.rows[i]))
                     /\ Less(Mul(Num(30), Add(f.rows[j].renewable_energy_share_pct,
                                              f.rows[j].waste_recycled_pct)),
                             Column(f, "green_efficiency_score")[j])

\* The greatest avg_training_hours_per_employee over the rows of f.
GreatestTraining(f) ==
    f.rows[CHOOSE i \in DOMAIN f.rows :
               \A j \in DOMAIN f.rows :
                   ~Less(f.rows[i].avg_training_hours_per_employee,
                         f.rows[j].avg_training_hours_per_employee)
          ].avg_training_hours_per_employee

\* A row with full engagement, no turnover, pay equity 1 and the given
\* training hours.
BestRow(training) ==
    [Pool[1] EXCEPT !.employee_engagement_score = Num(100),
                    !.employee_turnover_pct = Num(0),
                    !.pay_equity_ratio_female_to_male = Num(1),
                    !.avg_training_hours_per_employee = Num(training)]

\* C24. Social well-being index: in a finished run over a non-empty
\* subset every row's social_well_being_index is 25 * engagement/100
\* + 25 * (1 - turnover) + 25 * pay equity ratio + 25 * training hours /
\* greatest training hours of the subset; the weights add up to 1 and
\* nothing divides by their sum: a row at its best in all four terms scores
\* exactly 100, and a row at its best in three with half the greatest
\* training hours scores 87.5.
SocialIndexFormula ==
    /\ \A s \in Sessions :
          Finished(s) =>
              LET f == ns[s].filtered_df
              IN  \A i \in DOMAIN f.rows :
                      LET row == f.rows[i]
                      IN  Column(f, "social_well_being_index")[i]
                            = Add(Add(Mul(R(25, 100), row.employee_engagement_score),
                                      Mul(Num(25), Sub(Num(1), row.employee_turnover_pct))),
                                  Add(Mul(Num(25), row.pay_equity_ratio_female_to_male),
                                      Mul(Num(25),
                                          Div(row.avg_training_hours_per_employee,
                                              GreatestTraining(f)))))
    /\ social_well_being_index(AsFrame(<<BestRow(8)>>)) = <<Num(100)>>
    /\ social_well_being_index(AsFrame(<<BestRow(4), BestRow(8)>>)) = <<R(175, 2), Num(100)>>

\* C24 witness: a finished run over two rows of different training hours,
\* none zero, so that one row's training term is a proper fraction of 25.
SocialIndexWitness ==
    \E s \in Sessions :
        /\ Finished(s)
        /\ LET f == ns[s].filtered_df
           IN  /\ Len(f.rows) = 2
               /\ \E i \in DOMAIN f.rows :
                     /\ Less(Num(0), f.rows[i].avg_training_hours_per_employee)
                     /\ Less(f.rows[i].avg_training_hours_per_employee, GreatestTraining(f))
                     /\ IsFinite(Column(f, "social_well_being_index")[i])

PerRowColumns ==
    {"energy_intensity", "waste_intensity", "water_intensity", "male_pct",
     "diversity_inclusion_index"}

\* C25. Per-row metrics: in a finished run, a row whose
\* production_output_units is not zero has energy_intensity, waste_intensity
\* and water_intensity equal to energy_consumption_mwh,
\* waste_generated_tonnes and water_withdrawal_m3 over
\* production_output_units; every row has male_pct = 1 - female_pct and
\* diversity_inclusion_index = 100 * (female_pct + minority_pct +
\* board_gender_diversity_pct) / 3; and a row that two runs both keep has
\* the same five values in both, whatever else the runs keep.
PerRowMetrics ==
    /\ \A s \in Sessions :
          Finished(s) =>
              LET f == ns[s].filtered_df
              IN  \A i \in DOMAIN f.rows :
                      LET row == f.rows[i]
                          p   == row.production_output_units
                      IN  /\ p # Num(0) =>
                                /\ Mul(Column(f, "energy_intensity")[i], p)
                                      = row.energy_consumption_mwh
                                /\ Mul(Column(f, "waste_intensity")[i], p)
                                      = row.waste_generated_tonnes
                                /\ Mul(Column(f, "water_intensity")[i], p)
                                      = row.water_withdrawal_m3
                                /\ \A c \in {"energy_intensity", "waste_intensity",
                                              "water_intensity"} : IsFinite(Column(f, c)[i])
                          /\ Add(Column(f, "male_pct")[i], row.female_pct) = Num(1)
                          /\ Mul(Column(f, "diversity_inclusion_index")[i], Num(3))
                                = Mul(Num(100),
                                      Add(row.female_pct,
                                          Add(row.minority_pct, row.board_gender_diversity_pct)))
    /\ \A s, t \in Sessions :
          (Finished(s) /\ Finished(t)) =>
              LET f == ns[s].filtered_df
                  g == ns[t].filtered_df
              IN  \A l \in Shared(f, g) :
                      \A c \in PerRowColumns : Column(f, c)[At(f, l)] = Column(g, c)[At(g, l)]

\* C25 witness: two finished runs that keep different numbers of rows and
\* share a row whose production_output_units is not zero, one of them over
\* two rows only.
PerRowMetricsWitness ==
    \E s, t \in Sessions :
        /\ Finished(s) /\ Finished(t)
        /\ Len(ns[s].filtered_df.rows) = 3
        /\ Len(ns[t].filtered_df.rows) = 2
        /\ \E l \in Shared(ns[s].filtered_df, ns[t].filtered_df) :
              ns[s].filtered_df.rows[At(ns[s].filtered_df, l)].production_output_units # Num(0)

\* Are the keys of the aggregate g strictly ascending: integers by <,
\* strings in code point order, pairs by their first part and then their second?
AscendingYears(g) == \A k, l \in DOMAIN g : k < l => g[k].key < g[l].key
AscendingNames(g) == \A k, l \in DOMAIN g : k < l => StrLess(g[k].key, g[l].key)
AscendingYearQuarter(g) ==
    \A k, l \in DOMAIN g :
        k < l => \/ g[k].key[1] < g[l].key[1]
                 \/ g[k].key[1] = g[l].key[1] /\ g[k].key[2] < g[l].key[2]
AscendingYearRegion(g) ==
    \A k, l \in DOMAIN g :
        k < l => \/ g[k].key[1] < g[l].key[1]
                 \/ g[k].key[1] = g[l].key[1] /\ StrLess(g[k].key[2], g[l].key[2])

\* C26. Deterministic group order: every aggregate of a finished run lists
\* its groups in strictly ascending key order, (year, quarter) and (year,
\* region) keys by year first; with the groups being those of the keys
\* present, the order is fixed by the set of keys, whatever the order of
\* the filtered rows.
GroupOrder ==
    \A s \in Sessions :
        Finished(s) =>
            LET f == ns[s].filtered_df
                m == ns[s].metrics
            IN  /\ AscendingYears(m.energy_intensity_trend)
                /\ AscendingNames(m.green_score_dept)
                /\ AscendingYearRegion(m.minority_trend)
                /\ AscendingYearQuarter(m.turnover_trend)
                /\ AscendingYearQuarter(m.esg_trends)
                /\ AscendingNames(m.regional_esg)
                /\ AscendingNames(m.dept_esg)
                /\ {m.minority_trend[k].key : k \in DOMAIN m.minority_trend}
                      = Range(YearRegion(f))
                /\ {m.esg_trends[k].key : k \in DOMAIN m.esg_trends} = Range(YearQuarter(f))

\* C26 witness: a finished run whose filtered rows are not in key order: a
\* later row has the year of an earlier one and a smaller region, another
\* the year of an earlier one and a smaller quarter, another a smaller year.
GroupOrderWitness ==
    \E s \in Sessions :
        /\ Finished(s)
        /\ LET f == ns[s].filtered_df
           IN  /\ \E i, j \in DOMAIN f.rows :
                     /\ i < j /\ f.rows[i].year = f.rows[j].year
                     /\ StrLess(f.rows[j].region, f.rows[i].region)
               /\ \E i, j \in DOMAIN f.rows :
                     /\ i < j /\ f.rows[i].year = f.rows[j].year
                     /\ f.rows[j].quarter < f.rows[i].quarter
               /\ \E i, j \in DOMAIN f.rows : i < j /\ f.rows[j].year < f.rows[i].year

\* The derived columns and variables of a run.
DerivedNames ==
    {"energy_intensity", "carbon_intensity", "waste_intensity", "water_intensity",
     "norm_carbon_intensity", "green_efficiency_score", "male_pct",
     "social_well_being_index", "diversity_inclusion_index", "training_hours_bin",
     "governance_effectiveness_index", "current_gov_index", "previous_gov_index",
     "gov_index"}

\* C27. Derived-before-use ordering: at every point of a run, whatever the
\* run has evaluated so far (a derived column in a KPI, an aggregate or a
\* chart; current_gov_index, previous_gov_index and gov_index in the
\* benchmark and the gauge) it had assigned earlier in the same run.
DerivedBeforeUse ==
    \A s \in Sessions :
        LET t == ns[s].trace
        IN  \A k \in DOMAIN t :
                t[k].op = "read" =>
                    \E j \in 1..(k - 1) : t[j] = Event("write", t[k].name)

\* C27 witness: a finished run that has evaluated every derived column and
\* variable, previous_gov_index in the benchmark and again in the gauge,
\* after taking the current index for it.
DerivedBeforeUseWitness ==
    \E s \in Sessions :
        /\ Finished(s)
        /\ LET t == ns[s].trace
           IN  /\ \A c \in DerivedNames : \E k \in DOMAIN t : t[k] = Event("read", c)
               /\ Cardinality({k \in DOMAIN t : t[k] = Event("read", "previous_gov_index")}) = 2
               /\ \E k \in DOMAIN t :
                     /\ t[k] = Event("read", "current_gov_index")
                     /\ t[k + 1] = Event("write", "previous_gov_index")

\* The positions of the rows of f of the year before the greatest year of f.
YearBefore(f) ==
    {i \in DOMAIN f.rows :
        /\ \E j \in DOMAIN f.rows : f.rows[j].year = f.rows[i].year + 1
        /\ \A j \in DOMAIN f.rows : f.rows[j].year <= f.rows[i].year + 1}

\* The sum of q over the positions in set.
RECURSIVE SumOver(_, _)
SumOver(q, set) ==
    IF set = {} THEN Num(0)
    ELSE LET i == CHOOSE x \in set : TRUE
         IN  Add(q[i], SumOver(q, set \ {i}))

\* C28. Governance benchmark fallback: in a finished run the current index
\* is the mean of governance_effectiveness_index over the filtered rows; the
\* previous index is the mean over the rows whose year is the greatest
\* year of the subset less one, and the delta shown is current minus
\* previous to one decimal; with no such row the previous index is the
\* current one and the delta shown is 0.
BenchmarkFallback ==
    \A s \in Sessions :
        Finished(s) =>
            LET f   == ns[s].filtered_df
                m   == ns[s].metrics
                g   == Column(f, "governance_effectiveness_index")
                cur == Div(SumOver(g, DOMAIN g), Num(Len(g)))
                prv == Div(SumOver(g, YearBefore(f)), Num(Cardinality(YearBefore(f))))
            IN  /\ m.current_gov_index = cur
                /\ YearBefore(f) = {} =>
                      m.previous_gov_index = cur /\ m.gov_delta = Num(0)
                /\ YearBefore(f) # {} =>
                      m.previous_gov_index = prv /\ m.gov_delta = Format1(Sub(cur, prv))

\* C28 witness: two finished runs, one over rows of two consecutive years
\* with a delta shown that is not 0, the other with no row of the year
\* before its greatest.
BenchmarkFallbackWitness ==
    \E s, t \in Sessions :
        /\ Finished(s) /\ Finished(t)
        /\ YearBefore(ns[s].filtered_df) # {}
        /\ ns[s].metrics.gov_delta # Num(0)
        /\ ns[s].metrics.previous_gov_index # ns[s].metrics.current_gov_index
        /\ YearBefore(ns[t].filtered_df) = {}
        /\ ns[t].metrics.previous_gov_index = ns[t].metrics.current_gov_index

\* C29. Risk heatmap normalization: in a finished run risk_data has one row
\* per region present with the sums of data_breaches_count,
\* whistleblower_reports and fines_penalties_usd_m over the region's rows;
\* for each of the three, when the regions' sums are not all the same the
\* normalized value of a region is (sum - smallest) / (greatest - smallest),
\* which lies in [0, 1], is 0 for the smallest and 1 for the greatest; when
\* they are all the same (one region included) every value is 0.5; every
\* value is finite.
RiskNormalization ==
    \A s \in Sessions :
        Finished(s) =>
            LET f == ns[s].filtered_df
                d == ns[s].metrics.risk_data
                z == ns[s].metrics.risk_normalized
            IN  /\ DOMAIN z = DOMAIN d
                /\ {d[g].region : g \in DOMAIN d} = Range(Column(f, "region"))
                /\ Len(d) = Cardinality(Range(Column(f, "region")))
                /\ \A g \in DOMAIN d : \A c \in Range(risk_columns) :
                      LET lo == CHOOSE x \in {d[h][c] : h \in DOMAIN d} :
                                    \A h \in DOMAIN d : ~Less(d[h][c], x)
                          hi == CHOOSE x \in {d[h][c] : h \in DOMAIN d} :
                                    \A h \in DOMAIN d : ~Less(x, d[h][c])
                      IN  /\ z[g].region = d[g].region
                          /\ d[g][c] = SumOver(Column(f, c),
                                               {i \in DOMAIN f.rows :
                                                   f.rows[i].region = d[g].region})
                          /\ IsFinite(z[g][c])
                          /\ ~Less(z[g][c], Num(0)) /\ ~Less(Num(1), z[g][c])
                          /\ lo = hi => z[g][c] = R(1, 2)
                          /\ lo # hi =>
                                /\ Mul(z[g][c], Sub(hi, lo)) = Sub(d[g][c], lo)
                                /\ d[g][c] = lo => z[g][c] = Num(0)
                                /\ d[g][c] = hi => z[g][c] = Num(1)

\* C29 witness: a finished run over three regions in which one column has
\* a region strictly between the smallest and the greatest and another
\* column has the same sum in every region.
RiskNormalizationWitness ==
    \E s \in Sessions :
        /\ Finished(s)
        /\ LET z == ns[s].metrics.risk_normalized
           IN  /\ Len(z) = 3
               /\ \E g \in DOMAIN z : \E c \in Range(risk_columns) :
                     Less(Num(0), z[g][c]) /\ Less(z[g][c], R(1, 2))
               /\ \E c \in Range(risk_columns) : \A g \in DOMAIN z : z[g][c] = R(1, 2)

\* How many positions of the sequence q hold x.
Count(q, x) == Cardinality({k \in DOMAIN q : q[k] = x})

\* The line of the exported text for the row at position i of the frame f.
LineOf(f, i, header) == [c \in DOMAIN header |-> Column(f, header[c])[i]]

\* C30. Download row preservation: in a finished run the detailed view
\* holds every index label of the filtered subset exactly once and no other,
\* each with the cells of its filtered row; the exported text has as many
\* lines as the subset has rows, and each line as many times as the subset
\* has rows with those cells.
RowPreservation ==
    \A s \in Sessions :
        Finished(s) =>
            LET f   == ns[s].filtered_df
                d   == ns[s].metrics.detailed_df
                csv == ns[s].metrics.csv
                all == [i \in DOMAIN f.rows |-> LineOf(f, i, csv.header)]
            IN  /\ \A l \in Range(f.idx) : Count(d.idx, l) = 1
                /\ \A l \in Range(d.idx) : Count(f.idx, l) = 1
                /\ \A k \in DOMAIN d.rows :
                      \A c \in Range(csv.header) :
                          d.rows[k][c] = Column(f, c)[At(f, d.idx[k])]
                /\ Len(csv.lines) = Len(f.rows)
                /\ \A i \in DOMAIN all : Count(csv.lines, all[i]) = Count(all, all[i])
                /\ \A k \in DOMAIN csv.lines : Count(all, csv.lines[k]) > 0

\* C30 witness: a finished run whose subset has two rows with the same
\* cells and a third row that the sort moves in front of them.
RowPreservationWitness ==
    \E s \in Sessions :
        /\ Finished(s)
        /\ LET f   == ns[s].filtered_df
               d   == ns[s].metrics.detailed_df
               csv == ns[s].metrics.csv
           IN  /\ Len(f.rows) >= 3
               /\ \E i, j \in DOMAIN f.rows :
                     i < j /\ LineOf(f, i, csv.header) = LineOf(f, j, csv.header)
               /\ \E k \in DOMAIN d.idx : k > 1 /\ d.idx[k] < d.idx[1]
               /\ d.idx[1] = f.idx[Len(f.idx)]

====
